---- MODULE Spec2Model ----
(***************************************************************************)
(* Model of the garden tree-version cache (core/src/vcs/vcs.ts), of the    *)
(* task base classes (core/src/tasks/base.ts) and of the pulumi plugin     *)
(* command tasks (plugins/pulumi/commands.ts).                             *)
(*                                                                         *)
(* Strings are sequences of tokens; a token stands for a fixed piece of    *)
(* text ("/" , ":" , "include", a directory name, a content hash).  Two    *)
(* strings are equal exactly when their token sequences are equal.         *)
(***************************************************************************)
EXTENDS Integers, Sequences, FiniteSets, TLC

\* ------------------------------------------------------------------ bounds

\* Number of getTreeVersion calls in one run.
NCallers == 2

\* Number of writeFile calls in one run.
NWriters == 1

\* ------------------------------------------------------------------ strings

None == "none"

\* Tokens in the order of their first UTF-16 code unit (the order JS uses to
\* compare strings); "<" and ">" delimit a digest and occur nowhere else.
Alphabet ==
    << "-", ".", "/", ":", "<", ">", "a", "b", "c", "exclude", "f", "g",
       "h0", "h1", "include", "r", "source", "v" >>

sep == "/"

versionStringPrefix == << "v", "-" >>

CharIndex(ch) == CHOOSE i \in 1..Len(Alphabet) : Alphabet[i] = ch

RECURSIVE StrLess(_, _)
\* s < t for JS strings: code-unit-wise lexicographic order.
StrLess(s, t) ==
    IF t = << >> THEN FALSE
    ELSE IF s = << >> THEN TRUE
    ELSE IF Head(s) = Head(t) THEN StrLess(Tail(s), Tail(t))
    ELSE CharIndex(Head(s)) < CharIndex(Head(t))

startsWith(s, p) ==
    /\ Len(p) <= Len(s)
    /\ SubSeq(s, 1, Len(p)) = p

RECURSIVE Join(_, _)
\* Array.prototype.join: the strings of list, with d between them.
Join(list, d) ==
    IF list = << >> THEN << >>
    ELSE IF Len(list) = 1 THEN list[1]
    ELSE list[1] \o << d >> \o Join(Tail(list), d)

RECURSIVE Split(_, _)
\* String.prototype.split on a one-token separator.
Split(s, d) ==
    IF \A i \in 1..Len(s) : s[i] # d THEN << s >>
    ELSE LET i == CHOOSE j \in 1..Len(s) :
                      s[j] = d /\ \A k \in 1..(j - 1) : s[k] # d
         IN  << SubSeq(s, 1, i - 1) >> \o Split(SubSeq(s, i + 1, Len(s)), d)

RECURSIVE InsertString(_, _)
\* x put into the sorted list before the first element greater than it.
InsertString(list, x) ==
    IF list = << >> THEN << x >>
    ELSE IF StrLess(x, Head(list)) THEN << x >> \o list
    ELSE << Head(list) >> \o InsertString(Tail(list), x)

RECURSIVE SortStrings(_)
\* Array.prototype.sort() without a comparator, on an array of strings.
SortStrings(list) ==
    IF list = << >> THEN << >>
    ELSE InsertString(SortStrings(SubSeq(list, 1, Len(list) - 1)), list[Len(list)])

Range(f) == { f[i] : i \in DOMAIN f }

Perms(S) ==
    { p \in [1..Cardinality(S) -> S] : \A x \in S : \E i \in DOMAIN p : p[i] = x }

\* ------------------------------------------------------------------ hashing

\* "0000000000", character by character.
NEW_RESOURCE_VERSION == [i \in 1..10 |-> "0"]

\* The first 10 hex characters of the SHA-256 digest of s.  The digest is taken
\* to be free of collisions: it is written as s between the delimiters.
Digest(s) == << "<" >> \o s \o << ">" >>

hashStrings(hashes) == Digest(Join(hashes, "."))

\* ------------------------------------------------------------------ configs

Unset == [isSet |-> FALSE, v |-> << >>]

Some(x) == [isSet |-> TRUE, v |-> x]

Root == << "/", "r" >>

DirA == << "/", "r", "/", "a" >>

\* A directory whose name reads like the tail of another config's cache key.
DirColon == << "/", "r", ":", "include", ":", "<", "g", ">" >>

FileG == << "/", "r", "/", "g" >>

FileF == << "/", "r", "/", "a", "/", "f" >>

FileC == << "/", "r", "/", "a", "/", "c" >>

FilePaths == { FileG, FileF, FileC }

ContentHashes == { << "h0" >>, << "h1" >> }

projectRoot == Root

fixedProjectExcludes == << << ".git" >>, << ".garden" >> >>

\* The module configs of the project: name, source path, include and exclude
\* filters, and the path of the config file when there is one.
Configs ==
    { [name |-> "root", path |-> Root, include |-> Unset, exclude |-> Unset,
       configPath |-> Unset],
      [name |-> "a", path |-> DirA, include |-> Unset, exclude |-> Unset,
       configPath |-> Some(FileC)],
      [name |-> "a2", path |-> DirA, include |-> Unset, exclude |-> Unset,
       configPath |-> Some(FileF)],
      [name |-> "a0", path |-> DirA, include |-> Unset, exclude |-> Unset,
       configPath |-> Unset],
      [name |-> "empty", path |-> Root, include |-> Some(<< >>), exclude |-> Unset,
       configPath |-> Unset],
      [name |-> "g", path |-> Root, include |-> Some(<< << "g" >> >>),
       exclude |-> Unset, configPath |-> Unset],
      [name |-> "colon", path |-> DirColon, include |-> Unset, exclude |-> Unset,
       configPath |-> Unset] }

getConfigFilePath(config) == config.configPath

getSourcePath(config) == config.path

\* Configs of one directory whose include and exclude filters, where set,
\* list the same entries in either order.
KeyConfigs ==
    { [name |-> "k", path |-> Root, include |-> include, exclude |-> exclude,
       configPath |-> Unset] :
        include \in { Unset, Some(<< << "f" >>, << "g" >> >>),
                      Some(<< << "g" >>, << "f" >> >>) },
        exclude \in { Unset, Some(<< << "c" >>, << "g" >> >>),
                      Some(<< << "g" >>, << "c" >> >>) } }

\* A cache key made of the filters in the order they are listed in.
getResourceTreeCacheKeyAsListed(config) ==
    << << "source" >>, getSourcePath(config) >>
    \o (IF config.include.isSet
        THEN << << "include" >>, hashStrings(config.include.v) >>
        ELSE << >>)
    \o (IF config.exclude.isSet
        THEN << << "exclude" >>, hashStrings(config.exclude.v) >>
        ELSE << >>)

\* The config as getResourceTreeCacheKey leaves it: include and exclude are
\* sorted in place.
SortedConfig(config) ==
    [config EXCEPT
        !.include = IF @.isSet THEN Some(SortStrings(@.v)) ELSE @,
        !.exclude = IF @.isSet THEN Some(SortStrings(@.v)) ELSE @]

getResourceTreeCacheKey(config) ==
    << << "source" >>, getSourcePath(config) >>
    \o (IF config.include.isSet
        THEN << << "include" >>, hashStrings(SortStrings(config.include.v)) >>
        ELSE << >>)
    \o (IF config.exclude.isSet
        THEN << << "exclude" >>, hashStrings(SortStrings(config.exclude.v)) >>
        ELSE << >>)

\* The key of the scan lock: cacheKey.join(":").
ScanLockKey(cacheKey) == Join(cacheKey, ":")

\* ------------------------------------------------------------------ tree cache

\* The context of a path: its segments.
pathToCacheContext(path) == Split(path, sep)

IsPrefix(s, t) == Len(s) <= Len(t) /\ SubSeq(t, 1, Len(s)) = s

\* The cache is a function from the stored keys to [value, context].
CacheHas(c, key) == key \in DOMAIN c

CacheGet(c, key) == c[key].value

CacheSet(c, key, value, context) ==
    [k \in DOMAIN c \cup { key } |->
        IF k = key THEN [value |-> value, context |-> context] ELSE c[k]]

\* Every entry whose context is the given context or an ancestor of it goes.
invalidateUp(c, context) ==
    [k \in { k \in DOMAIN c : ~IsPrefix(c[k].context, context) } |-> c[k]]

\* ------------------------------------------------------------------ paths

Last(s) == s[Len(s)]

Front(s) == SubSeq(s, 1, Len(s) - 1)

basename(path) == Last(Split(path, sep))

\* node:path dirname of an absolute path.
dirname(path) ==
    LET dir == Join(Front(Split(path, sep)), sep)
    IN  IF dir = << >> THEN << sep >> ELSE dir

RECURSIVE CommonLen(_, _)
\* Number of leading elements two lists share.
CommonLen(s, t) ==
    IF s = << >> \/ t = << >> THEN 0
    ELSE IF Head(s) = Head(t) THEN 1 + CommonLen(Tail(s), Tail(t))
    ELSE 0

\* path.relative of two absolute paths: one ".." for every segment of from
\* below the common directory, then the segments of to below it.
relative(from, to) ==
    LET fromSegs == Split(from, sep)
        toSegs == Split(to, sep)
        n == CommonLen(fromSegs, toSegs)
    IN  Join([i \in 1..(Len(fromSegs) - n) |-> << ".." >>]
             \o SubSeq(toSegs, n + 1, Len(toSegs)), sep)

\* ------------------------------------------------------------------ scanning

Callers == 1..NCallers

Writers == 1..NWriters

VARIABLES
    fs,         \* file path -> content hash of the file
    cache,      \* the TreeCache: cache key -> [value, context]
    queues,     \* scanLock: held lock key -> callers waiting for it, in order
    pc,         \* getTreeVersion call -> where it is
    cfg,        \* getTreeVersion call -> its config object
    given,      \* history: getTreeVersion call -> the config as it was handed over
    force,      \* getTreeVersion call -> its force flag
    result,     \* getTreeVersion call -> its result variable
    snap,       \* getTreeVersion call -> the files the backend has read
    scanned,    \* getTreeVersion call -> it has invoked getFiles
    waited,     \* history: the call has queued on the scan lock
    acquired,   \* history: the call has called scanLock.acquire
    startSeen,  \* history: the writeFile calls completed when the call began
    since,      \* history: what became of the call's cache entry since it returned
    fsHist,     \* history: every state the file system has been in, in order
    wIdx,       \* history: writeFile call -> index in fsHist of the state it left
    wpc,        \* writeFile call -> where it is
    wpath,      \* writeFile call -> its path
    wdata,      \* writeFile call -> its data
    wEvicted,   \* history: writeFile call -> the cache keys its invalidation removed
    wKept       \* history: writeFile call -> the cache keys its invalidation left

vcsVars ==
    << fs, cache, queues, pc, cfg, given, force, result, snap, scanned, waited,
       acquired, startSeen, since, fsHist, wIdx, wpc, wpath, wdata, wEvicted,
       wKept >>

VARIABLES
    sortIn,     \* a config and two getFiles reports
    sortOut     \* the tree versions computed from the two reports

sortVars == << sortIn, sortOut >>

VARIABLES
    verIn,      \* the configs, tree hashes and dependency orders of two builds
    verOut      \* the version strings computed for the two builds

versionVars == << verIn, verOut >>

VARIABLES
    run,                    \* the parameters of the graph run
    phase,                  \* task key -> where the task is in the run
    resolvedDependencies,   \* task key -> _resolvedDependencies of the task
    results,                \* the results map: task key -> GraphResult
    statusCalls,            \* history: task key -> number of getStatus calls
    processCalls,           \* history: task key -> number of process calls
    statusOf                \* history: task key -> what getStatus returned

graphVars ==
    << run, phase, resolvedDependencies, results, statusCalls, processCalls,
       statusOf >>

VARIABLES
    minIn,      \* the paths given to getMinimalRoots, and the repositories
    minOut,     \* what getMinimalRoots returned for them
    walk        \* where a getMinimalRoots call is in its loops

rootsVars == << minIn, minOut, walk >>

VARIABLES
    instances,      \* the task objects, in the order they were created
    command,        \* a command has created its task objects
    resolveOut,     \* history: a call of getResolveTaskForAction, and its end
    taskResults     \* a results map the task objects are entered in

taskVars == << instances, command, resolveOut, taskResults >>

VARIABLES
    countIn,    \* what a scan finds: the number of files, the config file among them
    countOut    \* what getTreeVersion did with them

countVars == << countIn, countOut >>

vars ==
    << vcsVars, sortVars, versionVars, graphVars, rootsVars, taskVars, countVars >>

nonVcsVars == << sortVars, versionVars, graphVars, rootsVars, taskVars, countVars >>

nonGraphVars == << vcsVars, sortVars, versionVars, rootsVars, taskVars, countVars >>

nonRootsVars == << vcsVars, sortVars, versionVars, graphVars, taskVars, countVars >>

nonTaskVars ==
    << vcsVars, sortVars, versionVars, graphVars, rootsVars, countVars >>

nonCountVars == << vcsVars, sortVars, versionVars, graphVars, rootsVars, taskVars >>

\* The writeFile calls whose data is in the file system.
Landed == { w \in Writers : wpc[w] \in { "written", "done" } }

\* The writeFile calls that have returned.
Completed == { w \in Writers : wpc[w] = "done" }

\* What a backend reports for a scan of path: the files below it that pass the
\* filters, each with its content hash.
getFilesSet(files, path, include, exclude) ==
    { [path |-> p, hash |-> files[p]] :
        p \in { q \in FilePaths :
                  /\ startsWith(q, path \o << sep >>)
                  /\ include.isSet => basename(q) \in Range(include.v)
                  /\ exclude.isSet => basename(q) \notin Range(exclude.v) } }

\* sortBy left out: the files stay in the order getFiles reported them.
unsorted(files) == files

RECURSIVE InsertByPath(_, _)
InsertByPath(list, x) ==
    IF list = << >> THEN << x >>
    ELSE IF StrLess(x.path, Head(list).path) THEN << x >> \o list
    ELSE << Head(list) >> \o InsertByPath(Tail(list), x)

RECURSIVE sortByPath(_)
\* sortBy(files, "path"): a stable sort on the path.
sortByPath(files) ==
    IF files = << >> THEN << >>
    ELSE InsertByPath(sortByPath(Front(files)), Last(files))

RECURSIVE Filter(_, _)
\* The elements of list whose path is not the excluded one.
Filter(list, configPath) ==
    IF list = << >> THEN << >>
    ELSE (IF configPath.isSet /\ Head(list).path = configPath.v
          THEN << >> ELSE << Head(list) >>) \o Filter(Tail(list), configPath)

\* The exclude list handed to getFiles.
scanExclude(config) ==
    IF getSourcePath(config) = projectRoot /\ ~config.include.isSet
    THEN Some((IF config.exclude.isSet THEN config.exclude.v ELSE << >>)
              \o fixedProjectExcludes)
    ELSE config.exclude

\* A TreeVersion whose contentHash is made of the content hashes alone.
treeVersionOfHashes(config, reported) ==
    LET files == Filter(sortByPath(reported), getConfigFilePath(config))
    IN  [contentHash |-> hashStrings([i \in 1..Len(files) |-> files[i].hash]),
         files |-> [i \in 1..Len(files) |-> files[i].path]]

\* The TreeVersion computed from the files getFiles returned.
treeVersionOf(config, reported) ==
    LET configPath == getConfigFilePath(config)
        files == Filter(sortByPath(reported), configPath)
        stringsForContenthash ==
            IF configPath.isSet
            THEN [i \in 1..Len(files) |->
                    relative(dirname(configPath.v), files[i].path)
                    \o << "-" >> \o files[i].hash]
            ELSE [i \in 1..Len(files) |-> files[i].hash]
    IN  [contentHash |-> hashStrings(stringsForContenthash),
         files |-> [i \in 1..Len(files) |-> files[i].path]]

emptyTreeVersion == [contentHash |-> NEW_RESOURCE_VERSION, files |-> << >>]

\* An include filter that is never taken for empty.
includesNothingNever(config) == FALSE

\* An include filter that is set and has no entries.
includesNothing(config) == config.include.isSet /\ Len(config.include.v) = 0

\* The callback without its second look at the cache.
lockedBodyNoRecheck(config, forced, ch) ==
    IF includesNothing(config)
    THEN [kind |-> "empty", value |-> emptyTreeVersion,
          cache |-> CacheSet(ch, getResourceTreeCacheKey(config), emptyTreeVersion,
                             pathToCacheContext(getSourcePath(config)))]
    ELSE [kind |-> "scan", value |-> emptyTreeVersion, cache |-> ch]

\* The callback with a second look at the cache that a forced call takes too.
lockedBodyRecheckForced(config, forced, ch) ==
    LET cacheKey == getResourceTreeCacheKey(config)
    IN  IF CacheHas(ch, cacheKey)
        THEN [kind |-> "hit", value |-> CacheGet(ch, cacheKey), cache |-> ch]
        ELSE IF includesNothing(config)
        THEN [kind |-> "empty", value |-> emptyTreeVersion,
              cache |-> CacheSet(ch, cacheKey, emptyTreeVersion,
                                 pathToCacheContext(getSourcePath(config)))]
        ELSE [kind |-> "scan", value |-> emptyTreeVersion, cache |-> ch]

\* The callback handed to scanLock.acquire, up to its first await: the cache
\* is read again unless the call is forced, and nothing is scanned when the
\* include filter is empty.
lockedBody(config, forced, ch) ==
    LET cacheKey == getResourceTreeCacheKey(config)
    IN  IF ~forced /\ CacheHas(ch, cacheKey)
        THEN [kind |-> "hit", value |-> CacheGet(ch, cacheKey), cache |-> ch]
        ELSE IF includesNothing(config)
        THEN [kind |-> "empty", value |-> emptyTreeVersion,
              cache |-> CacheSet(ch, cacheKey, emptyTreeVersion,
                                 pathToCacheContext(getSourcePath(config)))]
        ELSE [kind |-> "scan", value |-> emptyTreeVersion, cache |-> ch]

\* The history of the calls' cache entries after a step in which the calls of
\* returning have returned and forced calls have stored under forcedKeys.
sinceAfter(returning, forcedKeys) ==
    [d \in DOMAIN pc |->
        IF d \in returning THEN "nothing"
        ELSE IF since[d] = "nothing"
                /\ getResourceTreeCacheKey(cfg[d]) \in forcedKeys
        THEN "stored"
        ELSE since[d]]

RECURSIVE runQueue(_, _, _)
\* async-lock, when the holder of a key is done: the queued callbacks run in
\* order, each to its end, until one of them awaits getFiles and so keeps the
\* lock.  Gives the cache they leave, the calls that ended with their results,
\* the new holder (0 when the lock is free) and the calls still queued.
runQueue(queue, ch, ended) ==
    IF queue = << >>
    THEN [cache |-> ch, ended |-> ended, holder |-> 0, queue |-> << >>]
    ELSE LET d == Head(queue)
             out == lockedBody(cfg[d], force[d], ch)
         IN  IF out.kind = "scan"
             THEN [cache |-> ch, ended |-> ended, holder |-> d, queue |-> Tail(queue)]
             ELSE runQueue(Tail(queue), out.cache,
                           ended \cup { [call |-> d, value |-> out.value] })

\* The state after call c, the holder of its lock key, has left the lock with
\* the cache ch, its own result value and its new position.
release(c, ch, value, position) ==
    LET lockKey == ScanLockKey(getResourceTreeCacheKey(cfg[c]))
        r == runQueue(queues[lockKey], ch, { })
        endedCalls == { e.call : e \in r.ended }
        valueOf(d) == (CHOOSE e \in r.ended : e.call = d).value
        returning == (IF position = "done" THEN { c } ELSE { }) \cup endedCalls
    IN  /\ cache' = r.cache
        /\ since' = sinceAfter(returning,
                               { getResourceTreeCacheKey(cfg[e]) :
                                   e \in { x \in returning : force[x] } })
        /\ queues' = IF r.holder = 0
                     THEN [k \in DOMAIN queues \ { lockKey } |-> queues[k]]
                     ELSE [queues EXCEPT ![lockKey] = r.queue]
        /\ pc' = [d \in DOMAIN pc |->
                    IF d = c THEN position
                    ELSE IF d \in endedCalls THEN "done"
                    ELSE IF d = r.holder THEN "scanning"
                    ELSE pc[d]]
        /\ result' = [d \in DOMAIN pc |->
                        IF d = c THEN value
                        ELSE IF d \in endedCalls THEN valueOf(d)
                        ELSE result[d]]
        /\ scanned' = [d \in DOMAIN pc |-> scanned[d] \/ d = r.holder]

\* A call that never returns from the cache without the lock.
fastPathNever(forced, ch, cacheKey) == FALSE

\* The look at the cache before the lock: a call that is not forced returns
\* what is cached.
fastPath(forced, ch, cacheKey) == ~forced /\ CacheHas(ch, cacheKey)

\* getTreeVersion is called: everything up to its first await.
Call(c, config, forced) ==
    LET cacheKey == getResourceTreeCacheKey(config)
        lockKey == ScanLockKey(cacheKey)
        out == lockedBody(config, forced, cache)
    IN  /\ pc[c] = "idle"
        /\ c > 1 => pc[c - 1] # "idle"
        /\ cfg' = [cfg EXCEPT ![c] = SortedConfig(config)]
        /\ given' = [given EXCEPT ![c] = config]
        /\ force' = [force EXCEPT ![c] = forced]
        /\ startSeen' = [startSeen EXCEPT ![c] = Completed]
        /\ acquired' = [acquired EXCEPT ![c] = ~fastPath(forced, cache, cacheKey)]
        /\ IF fastPath(forced, cache, cacheKey)
           THEN /\ result' = [result EXCEPT ![c] = CacheGet(cache, cacheKey)]
                /\ pc' = [pc EXCEPT ![c] = "done"]
                /\ since' = sinceAfter({ c }, { })
                /\ UNCHANGED << cache, queues, scanned, waited >>
           ELSE IF lockKey \in DOMAIN queues
           THEN /\ queues' = [queues EXCEPT ![lockKey] = Append(@, c)]
                /\ pc' = [pc EXCEPT ![c] = "waiting"]
                /\ waited' = [waited EXCEPT ![c] = TRUE]
                /\ UNCHANGED << cache, result, scanned, since >>
           ELSE IF out.kind = "scan"
           THEN /\ queues' = [k \in DOMAIN queues \cup { lockKey } |->
                                IF k = lockKey THEN << >> ELSE queues[k]]
                /\ pc' = [pc EXCEPT ![c] = "scanning"]
                /\ scanned' = [scanned EXCEPT ![c] = TRUE]
                /\ UNCHANGED << cache, result, waited, since >>
           ELSE /\ cache' = out.cache
                /\ result' = [result EXCEPT ![c] = out.value]
                /\ pc' = [pc EXCEPT ![c] = "done"]
                /\ since' = sinceAfter({ c }, IF forced THEN { cacheKey } ELSE { })
                /\ UNCHANGED << queues, scanned, waited >>
        /\ UNCHANGED << fs, snap, fsHist, wIdx, wpc, wpath, wdata, wEvicted, wKept >>
        /\ UNCHANGED nonVcsVars

\* The backend reads the tree: the files as they are now.
GetFilesRead(c) ==
    /\ pc[c] = "scanning"
    /\ snap' = [snap EXCEPT ![c] = getFilesSet(fs, getSourcePath(cfg[c]),
                                               cfg[c].include, scanExclude(cfg[c]))]
    /\ pc' = [pc EXCEPT ![c] = "read"]
    /\ UNCHANGED << fs, cache, queues, cfg, given, force, result, scanned, waited,
                    acquired, startSeen, since, fsHist, wIdx, wpc, wpath, wdata, wEvicted,
                    wKept >>
    /\ UNCHANGED nonVcsVars

\* getFiles returns the files it read, in some order: the tree version is
\* computed and cached, the lock is left.
GetFilesReturn(c) ==
    /\ pc[c] = "read"
    /\ \E files \in Perms(snap[c]) :
          LET value == treeVersionOf(cfg[c], files)
          IN  release(c, CacheSet(cache, getResourceTreeCacheKey(cfg[c]), value,
                                  pathToCacheContext(getSourcePath(cfg[c]))),
                      value, "done")
    /\ snap' = [snap EXCEPT ![c] = { }]
    /\ UNCHANGED << fs, cfg, given, force, waited, acquired, startSeen, fsHist, wIdx,
                    wpc, wpath, wdata, wEvicted, wKept >>
    /\ UNCHANGED nonVcsVars

\* A failed scan that keeps the lock.
GetFilesFailHoldsLock(c) ==
    /\ pc[c] \in { "scanning", "read" }
    /\ pc' = [pc EXCEPT ![c] = "failed"]
    /\ snap' = [snap EXCEPT ![c] = { }]
    /\ UNCHANGED << fs, cache, queues, cfg, given, force, result, scanned, waited,
                    acquired, startSeen, since, fsHist, wIdx, wpc, wpath, wdata,
                    wEvicted, wKept >>
    /\ UNCHANGED nonVcsVars

\* getFiles throws: getTreeVersion rejects, nothing is cached, the lock is left.
GetFilesFail(c) ==
    /\ pc[c] \in { "scanning", "read" }
    /\ release(c, cache, result[c], "failed")
    /\ snap' = [snap EXCEPT ![c] = { }]
    /\ UNCHANGED << fs, cfg, given, force, waited, acquired, startSeen, fsHist, wIdx,
                    wpc, wpath, wdata, wEvicted, wKept >>
    /\ UNCHANGED nonVcsVars

\* writeFile, first half: the data reaches the file system.
WriteFileWrite(w, path, data) ==
    /\ wpc[w] = "idle"
    /\ fs[path] # data
    /\ w > 1 => wpc[w - 1] # "idle"
    /\ fs' = [fs EXCEPT ![path] = data]
    /\ fsHist' = Append(fsHist, fs')
    /\ wIdx' = [wIdx EXCEPT ![w] = Len(fsHist) + 1]
    /\ wpc' = [wpc EXCEPT ![w] = "written"]
    /\ wpath' = [wpath EXCEPT ![w] = path]
    /\ wdata' = [wdata EXCEPT ![w] = data]
    /\ UNCHANGED << cache, queues, pc, cfg, given, force, result, snap, scanned, waited,
                    acquired, startSeen, since, wEvicted, wKept >>
    /\ UNCHANGED nonVcsVars

\* writeFile without its invalidation.
writeFileNoInvalidate(ch, path) == ch

\* writeFile that clears the whole cache.
writeFileClear(ch, path) == << >>

\* The cache after writeFile's invalidation for path.
writeFileInvalidate(ch, path) == invalidateUp(ch, pathToCacheContext(path))

\* writeFile, second half: the cache is invalidated and writeFile returns.
WriteFileDone(w) ==
    /\ wpc[w] = "written"
    /\ cache' = writeFileInvalidate(cache, wpath[w])
    /\ wpc' = [wpc EXCEPT ![w] = "done"]
    /\ wEvicted' = [wEvicted EXCEPT ![w] = DOMAIN cache \ DOMAIN cache']
    /\ wKept' = [wKept EXCEPT ![w] = DOMAIN cache \cap DOMAIN cache']
    /\ since' = [d \in DOMAIN pc |->
                    IF /\ since[d] \in { "nothing", "stored" }
                       /\ getResourceTreeCacheKey(cfg[d])
                             \in DOMAIN cache \ DOMAIN cache'
                    THEN "invalidated"
                    ELSE since[d]]
    /\ UNCHANGED << fs, queues, pc, cfg, given, force, result, snap, scanned, waited,
                    acquired, startSeen, fsHist, wIdx, wpath, wdata >>
    /\ UNCHANGED nonVcsVars

WritablePaths == { FileF, FileG }

InitFs == [p \in FilePaths |-> << "h0" >>]

InitVcsFor(callers) ==
    /\ fs = InitFs
    /\ fsHist = << InitFs >>
    /\ cache = << >>
    /\ queues = << >>
    /\ pc = [c \in callers |-> "idle"]
    /\ cfg = [c \in callers |-> CHOOSE x \in Configs : x.name = "root"]
    /\ given = cfg
    /\ force = [c \in callers |-> FALSE]
    /\ result = [c \in callers |-> emptyTreeVersion]
    /\ snap = [c \in callers |-> { }]
    /\ scanned = [c \in callers |-> FALSE]
    /\ waited = [c \in callers |-> FALSE]
    /\ acquired = [c \in callers |-> FALSE]
    /\ startSeen = [c \in callers |-> { }]
    /\ since = [c \in callers |-> "idle"]
    /\ wpc = [w \in Writers |-> "idle"]
    /\ wpath = [w \in Writers |-> FileF]
    /\ wdata = [w \in Writers |-> << "h0" >>]
    /\ wIdx = [w \in Writers |-> 1]
    /\ wEvicted = [w \in Writers |-> { }]
    /\ wKept = [w \in Writers |-> { }]

\* No getTreeVersion call and no writeFile call has been made.
InitVcs == InitVcsFor(Callers)

\* ------------------------------------------------------------------ sorting

\* The configs whose scan calls getFiles.
ScanningConfigs == { x \in Configs : ~includesNothing(x) }

\* The file states of a tree: every file with one of the content hashes.
FileStates == [FilePaths -> ContentHashes]

\* Two reports of one scan, the files in any two orders.
InitSort ==
    /\ \E config \in ScanningConfigs, files \in FileStates :
         \E first, second \in Perms(getFilesSet(files, getSourcePath(config),
                                                config.include, scanExclude(config))) :
             sortIn = [config |-> config, first |-> first, second |-> second]
    /\ sortOut = << >>

\* The part of getTreeVersion that follows getFiles, for both reports.
ComputeTreeVersions ==
    /\ sortOut = << >>
    /\ sortOut' = << treeVersionOf(sortIn.config, sortIn.first),
                    treeVersionOf(sortIn.config, sortIn.second) >>
    /\ UNCHANGED << sortIn, vcsVars, versionVars, graphVars, rootsVars, taskVars,
                    countVars >>

\* The files a directory can hold.
RenamePaths ==
    { DirA \o << sep, name >> : name \in { "b", "c", "f", "g" } }

\* The configs of that directory: two with a config file in it, one without
\* a config file path.
RenameConfigs == { x \in Configs : x.name \in { "a", "a2", "a0" } }

\* The files after the file at from got the path to.
rename(files, from, to) ==
    { IF f.path = from THEN [f EXCEPT !.path = to] ELSE f : f \in files }

\* Two scans of a directory, one before and one after a file of it is
\* renamed within the directory.
InitRename ==
    /\ \E config \in RenameConfigs, paths \in SUBSET RenamePaths :
         /\ paths # { } /\ paths # RenamePaths
         /\ \E hashes \in [paths -> ContentHashes], from \in paths,
               to \in RenamePaths \ paths :
               LET files == { [path |-> q, hash |-> hashes[q]] : q \in paths }
               IN  \E first \in Perms(files),
                      second \in Perms(rename(files, from, to)) :
                      sortIn = [config |-> config, first |-> first,
                                second |-> second]
    /\ sortOut = << >>

IdleSort ==
    /\ sortIn = [config |-> CHOOSE x \in Configs : x.name = "root",
                 first |-> << >>, second |-> << >>]
    /\ sortOut = << >>

\* ------------------------------------------------------------------ versions

\* The modules of a project; b is built from a, and c from a and b.
Modules == { "a", "b", "c" }

buildDependencies ==
    [m \in Modules |->
        IF m = "b" THEN { "a" } ELSE IF m = "c" THEN { "a", "b" } ELSE { }]

\* The config of a module, every field as one word.
baseConfig(m) ==
    [apiVersion |-> "api0", name |-> m, type |-> "exec", spec |-> "spec0",
     variables |-> "vars0", varfile |-> "varfile0", inputs |-> "inputs0",
     path |-> "path0", configPath |-> "configPath0", outputs |-> "outputs0",
     buildConfig |-> None]

ConfigFields ==
    { "apiVersion", "type", "spec", "variables", "varfile", "inputs", "path",
      "configPath", "outputs", "buildConfig" }

\* The config of module a and the configs that differ from it in one field
\* or in two.
ConfigVariants ==
    LET changed(config, field) ==
            IF field = "buildConfig" THEN [config EXCEPT !.buildConfig = "build1"]
            ELSE [config EXCEPT ![field] = "changed"]
        one == { changed(baseConfig("a"), f) : f \in ConfigFields }
    IN  { baseConfig("a") } \cup one
        \cup { changed(changed(baseConfig("a"), "buildConfig"), f) :
                  f \in { "spec", "path" } }

\* The fields hashModuleVersion picks, in the order it names them.
pickedFields ==
    << "apiVersion", "name", "spec", "type", "variables", "varfile", "inputs" >>

\* Every field of the config.
allFields ==
    << "apiVersion", "name", "spec", "type", "variables", "varfile", "inputs",
       "path", "configPath", "outputs" >>

\* pick(moduleConfig, fields): the named fields and their values.
pick(moduleConfig, fields) ==
    [i \in 1..Len(fields) |-> << fields[i], moduleConfig[fields[i]] >>]

RECURSIVE serializeConfig(_)
\* serializeConfig: the fields and values in their order, every one written
\* out, so that two objects give one string only when they are equal.
serializeConfig(object) ==
    IF object = << >> THEN << "}" >>
    ELSE << object[1][1], "=", object[1][2], ";" >> \o serializeConfig(Tail(object))

\* The config that is hashed: the full config of the module.
configToHashFull(moduleConfig) == pick(moduleConfig, allFields)

\* The config that is hashed: the build config when there is one, else the
\* picked fields of the module config.
configToHash(moduleConfig) ==
    IF moduleConfig.buildConfig # None
    THEN << << "buildConfig", moduleConfig.buildConfig >> >>
    ELSE pick(moduleConfig, pickedFields)

\* The pairs as they are given.
unsortedByName(pairs) == pairs

RECURSIVE InsertByName(_, _)
InsertByName(list, x) ==
    IF list = << >> THEN << x >>
    ELSE IF StrLess(x[1], list[1][1]) THEN << x >> \o list
    ELSE << list[1] >> \o InsertByName(Tail(list), x)

RECURSIVE sortByName(_)
\* sortBy(pairs, (vs) => vs[0]): a stable sort by the name.
sortByName(pairs) ==
    IF pairs = << >> THEN << >>
    ELSE InsertByName(sortByName(SubSeq(pairs, 1, Len(pairs) - 1)),
                      pairs[Len(pairs)])

\* A version that leaves the dependencies out.
hashModuleVersionAlone(moduleConfig, treeVersion, dependencyModuleVersions) ==
    hashStrings(<< serializeConfig(configToHash(moduleConfig)),
                   treeVersion.contentHash >>)

hashModuleVersion(moduleConfig, treeVersion, dependencyModuleVersions) ==
    LET configString == serializeConfig(configToHash(moduleConfig))
        pairs == << << treeVersion.name, treeVersion.contentHash >> >>
                 \o [i \in 1..Len(dependencyModuleVersions) |->
                        << dependencyModuleVersions[i].name,
                           dependencyModuleVersions[i].versionString >>]
        sorted == sortByName(pairs)
        versionStrings == [i \in 1..Len(sorted) |-> sorted[i][2]]
    IN  hashStrings(<< configString >> \o versionStrings)

\* A version string without the prefix.
getModuleVersionBare(moduleConfig, treeVersion, dependencyModuleVersions) ==
    hashModuleVersion(moduleConfig, treeVersion, dependencyModuleVersions)

getModuleVersionString(moduleConfig, treeVersion, dependencyModuleVersions) ==
    versionStringPrefix
    \o hashModuleVersion(moduleConfig, treeVersion, dependencyModuleVersions)

\* The config of an entity of a module.
entityConfig == << << "name", "service" >> >>

\* getEntityVersion, given the version string of the module.
getEntityVersion(versionString, config) ==
    versionStringPrefix \o hashStrings(<< versionString, serializeConfig(config) >>)

\* The orders in which the versions of the dependencies are handed over.
DependencyOrders ==
    { order \in [Modules -> UNION { Perms(buildDependencies[m]) : m \in Modules }] :
        \A m \in Modules : order[m] \in Perms(buildDependencies[m]) }

RECURSIVE versionOf(_, _, _, _)
\* The version string of a module of a build: that of getModuleVersionString
\* for its config, its tree version and the versions of its dependencies.
versionOf(m, configs, hashes, order) ==
    getModuleVersionString(
        configs[m],
        [name |-> << m >>, contentHash |-> hashes[m], files |-> << >>],
        [i \in 1..Len(order[m]) |->
            [name |-> << order[m][i] >>,
             versionString |-> versionOf(order[m][i], configs, hashes, order)]])

\* The tree hashes of a build: one of the content hashes, or the sentinel of
\* a module that includes no file.
TreeHashes == ContentHashes \cup { NEW_RESOURCE_VERSION }

\* Two builds of the project: the config of a, the tree hashes and the order
\* of the dependencies of each.
InitVersion ==
    /\ \E first, second \in ConfigVariants, hashes \in [Modules -> ContentHashes],
          m \in Modules, h \in TreeHashes, orders, orders2 \in DependencyOrders :
          verIn = [config |-> << first, second >>,
                   hashes |-> << hashes, [hashes EXCEPT ![m] = h] >>,
                   order |-> << orders, orders2 >>]
    /\ verOut = << >>

\* The version strings of the modules and of an entity of each, for both
\* builds.
ComputeVersions ==
    /\ verOut = << >>
    /\ verOut' =
          [i \in 1..2 |->
              LET configs == [m \in Modules |->
                                 IF m = "a" THEN verIn.config[i] ELSE baseConfig(m)]
                  version == [m \in Modules |->
                                 versionOf(m, configs, verIn.hashes[i], verIn.order[i])]
              IN  [module |-> version,
                   entity |-> [m \in Modules |->
                                  getEntityVersion(version[m], entityConfig)]]]
    /\ UNCHANGED << verIn, vcsVars, sortVars, graphVars, rootsVars, taskVars,
                    countVars >>

IdleVersion ==
    /\ verIn = << >>
    /\ verOut = << >>

\* ------------------------------------------------------------------ file count

fileCountWarningThreshold == 10000

\* The file counts tried lie this far around the threshold.
CountSpan == 12

\* A scan: the number of files getFiles returns, whether the config file of
\* the config is one of them, and whether the handler was given a garden.
InitCount ==
    /\ \E n \in (fileCountWarningThreshold - CountSpan)
                  ..(fileCountWarningThreshold + CountSpan),
          configFile \in BOOLEAN, garden \in BOOLEAN :
          countIn = [returned |-> n, configFile |-> configFile, garden |-> garden]
    /\ countOut = [done |-> FALSE, warned |-> FALSE, files |-> 0, stored |-> FALSE]

\* The part of getTreeVersion that follows getFiles, by the number of files:
\* the warning is decided on what getFiles returned, then the config file is
\* taken out, and the result is stored and returned.
CountFiles ==
    /\ ~countOut.done
    /\ countOut' =
          [done |-> TRUE,
           warned |-> countIn.garden /\ countIn.returned > fileCountWarningThreshold,
           files |-> countIn.returned - (IF countIn.configFile THEN 1 ELSE 0),
           stored |-> TRUE]
    /\ UNCHANGED << countIn, nonCountVars >>

IdleCount ==
    /\ countIn = [returned |-> 0, configFile |-> FALSE, garden |-> FALSE]
    /\ countOut = [done |-> FALSE, warned |-> FALSE, files |-> 0, stored |-> FALSE]

\* ------------------------------------------------------------------ minimal roots

\* Largest number of paths given to getMinimalRoots.
MaxPaths == 3

\* The paths of the file system that can be asked for; the directory ab is
\* a sibling of a whose name starts with a.
RootPaths ==
    { << "/", "r" >>, << "/", "r", "/", "a" >>, << "/", "r", "/", "a", "b" >>,
      << "/", "r", "/", "a", "/", "c" >>, << "/", "r", "/", "b" >>,
      << "/", "b" >> }

\* The repository roots of a file system: the file system root alone, /r
\* alone, or /r with a repository of its own in /r/a.
RepoLayouts ==
    { { << "/" >> }, { << "/", "r" >> },
      { << "/", "r" >>, << "/", "r", "/", "a" >> } }

\* The directory is the path or one of the directories above it.
contains(dir, path) ==
    \/ dir = path
    \/ dir = << sep >> /\ startsWith(path, dir)
    \/ startsWith(path, dir \o << sep >>)

\* getRepoRoot: the root of the innermost repository the path is in.
getRepoRoot(layout, path) ==
    CHOOSE root \in layout :
        /\ contains(root, path)
        /\ \A other \in layout : contains(other, path) => Len(other) <= Len(root)

\* splitLast(s, delimiter): what is before the last delimiter and what is
\* after it, ["", s] when there is none.
splitLast(s, delimiter) ==
    IF \A i \in 1..Len(s) : s[i] # delimiter THEN << << >>, s >>
    ELSE LET lastIndex == CHOOSE i \in 1..Len(s) :
                 s[i] = delimiter /\ \A j \in (i + 1)..Len(s) : s[j] # delimiter
         IN  << SubSeq(s, 1, lastIndex - 1), SubSeq(s, lastIndex + 1, Len(s)) >>

\* No getMinimalRoots call is followed step by step; turns is history: the
\* turns of the while loop since it was entered last.
IdleWalk ==
    [pc |-> "idle", i |-> 1, j |-> 1, p |-> << >>, outputs |-> << >>, turns |-> 0]

RECURSIVE walkUpNoFloor(_, _, _)
\* The walk up from a path that does not stop at the repository root.
walkUpNoFloor(output, repoPath, repoRoot) ==
    LET p == splitLast(repoPath, sep)[1]
    IN  IF startsWith(output, p) THEN p
        ELSE walkUpNoFloor(output, p, repoRoot)

RECURSIVE walkUp(_, _, _)
\* getMinimalRoots, the while loop: up from repoPath to the first directory
\* the output starts with, or to the repository root.
walkUp(output, repoPath, repoRoot) ==
    LET p == splitLast(repoPath, sep)[1]
    IN  IF Len(p) < Len(repoRoot) THEN repoRoot
        ELSE IF startsWith(output, p) THEN p
        ELSE walkUp(output, p, repoRoot)

RECURSIVE minimalRoot(_, _, _)
\* getMinimalRoots, the inner loop: the output of a path after the paths of
\* its repository were looked at one after the other.  An output that is not
\* there yet is the empty string, which the test !outputs[path] takes for one
\* that is not there as well.
minimalRoot(output, repoPaths, repoRoot) ==
    IF repoPaths = << >> THEN output
    ELSE LET repoPath == Head(repoPaths)
             next == IF output = << >> THEN repoPath
                     ELSE IF startsWith(output, repoPath) THEN repoPath
                     ELSE walkUp(output, repoPath, repoRoot)
         IN  minimalRoot(next, Tail(repoPaths), repoRoot)

RECURSIVE minimalRoots(_, _, _, _)
\* getMinimalRoots, the outer loop over the paths.
minimalRoots(paths, outputs, repoRoots, rootsToPaths) ==
    IF paths = << >> THEN outputs
    ELSE LET path == Head(paths)
             repoRoot == repoRoots[path]
             before == IF path \in DOMAIN outputs THEN outputs[path] ELSE << >>
             after == minimalRoot(before, rootsToPaths[repoRoot], repoRoot)
         IN  minimalRoots(Tail(paths),
                          [q \in DOMAIN outputs \cup { path } |->
                              IF q = path THEN after ELSE outputs[q]],
                          repoRoots, rootsToPaths)

\* getMinimalRoots: the repository root of every path is looked up, the
\* paths are filed under their roots in the order the lookups end in, and
\* the outputs are computed.
getMinimalRoots(paths, layout, order) ==
    LET repoRoots == [path \in Range(paths) |-> getRepoRoot(layout, path)]
        ended == [i \in 1..Len(paths) |-> paths[order[i]]]
        rootsToPaths ==
            [root \in layout |->
                SelectSeq(ended, LAMBDA path : repoRoots[path] = root)]
    IN  minimalRoots(paths, << >>, repoRoots, rootsToPaths)

\* Up to MaxPaths paths, each in a repository of the file system, and the
\* order the lookups of their repository roots end in.
InitRoots ==
    /\ \E n \in 1..MaxPaths, layout \in RepoLayouts :
          \E paths \in [1..n -> RootPaths], order \in Perms(1..n) :
              /\ \A i \in 1..n : \E root \in layout : contains(root, paths[i])
              /\ minIn = [paths |-> paths, layout |-> layout, order |-> order]
    /\ minOut = Unset
    /\ walk = IdleWalk

GetMinimalRoots ==
    /\ ~minOut.isSet
    /\ minOut' = Some(getMinimalRoots(minIn.paths, minIn.layout, minIn.order))
    /\ UNCHANGED << minIn, walk, nonRootsVars >>

IdleRoots ==
    /\ minIn = << >>
    /\ minOut = Unset
    /\ walk = IdleWalk

\* Largest number of paths of a getMinimalRoots call that is followed step
\* by step.
MaxWalkPaths == 2

\* The paths of such a call: /b and the others have no directory in common
\* below the file system root, and b has no separator at all.
WalkPaths ==
    { << "b" >>, << "/", "b" >>, << "/", "r", "/", "a" >>,
      << "/", "r", "/", "a", "b" >>, << "/", "r", "/", "a", "/", "c" >> }

\* What getRepoRoot may return for a path: any of these, whether the path
\* is below it or not.
WalkRoots == { << "/" >>, << "/", "r" >>, << "/", "r", "/", "a" >> }

\* Up to MaxWalkPaths paths, the repository root getRepoRoot returns for
\* each, and the order the lookups end in.
InitWalk ==
    /\ \E n \in 1..MaxWalkPaths :
          \E paths \in [1..n -> WalkPaths], order \in Perms(1..n) :
              \E roots \in [Range(paths) -> WalkRoots] :
                  minIn = [paths |-> paths, roots |-> roots, order |-> order]
    /\ minOut = Unset
    /\ walk = IdleWalk

\* rootsToPaths[repoRoot]: the paths of the repository, in the order their
\* lookups ended in.
repoPathsOf(repoRoot) ==
    SelectSeq([i \in 1..Len(minIn.paths) |-> minIn.paths[minIn.order[i]]],
              LAMBDA path : minIn.roots[path] = repoRoot)

\* outputs with the output of the path set.
withOutput(outputs, path, value) ==
    [q \in DOMAIN outputs \cup { path } |-> IF q = path THEN value ELSE outputs[q]]

\* Promise.all has resolved: the loops begin.
WalkLookups ==
    /\ walk.pc = "idle"
    /\ walk' = [walk EXCEPT !.pc = "for"]
    /\ UNCHANGED << minIn, minOut, nonRootsVars >>

\* One turn of the for loops: the next path, or the next path of its
\* repository, whose test either sets the output or enters the while loop.
WalkFor ==
    /\ walk.pc = "for"
    /\ IF walk.i > Len(minIn.paths)
       THEN /\ walk' = [walk EXCEPT !.pc = "done"]
            /\ minOut' = Some(walk.outputs)
       ELSE LET path == minIn.paths[walk.i]
                repoPaths == repoPathsOf(minIn.roots[path])
                output == IF path \in DOMAIN walk.outputs
                          THEN walk.outputs[path] ELSE << >>
            IN  /\ minOut' = minOut
                /\ IF walk.j > Len(repoPaths)
                   THEN walk' = [walk EXCEPT !.i = @ + 1, !.j = 1]
                   ELSE IF output = << >> \/ startsWith(output, repoPaths[walk.j])
                   THEN walk' = [walk EXCEPT
                                    !.outputs = withOutput(@, path, repoPaths[walk.j]),
                                    !.j = @ + 1]
                   ELSE walk' = [walk EXCEPT !.pc = "while",
                                             !.p = repoPaths[walk.j], !.turns = 0]
    /\ UNCHANGED << minIn, nonRootsVars >>

\* A step that leaves p as it is.
stepUpNowhere(p) == p

\* p = splitLast(p, sep)[0]: p without its last segment.
stepUp(p) == splitLast(p, sep)[1]

\* One turn of the while loop: p loses its last segment, and the loop is
\* left at the repository root or at a prefix of the output.
WalkWhile ==
    LET path == minIn.paths[walk.i]
        repoRoot == minIn.roots[path]
        p == stepUp(walk.p)
    IN  /\ walk.pc = "while"
        /\ IF Len(p) < Len(repoRoot)
           THEN walk' = [walk EXCEPT !.outputs = withOutput(@, path, repoRoot),
                                     !.pc = "for", !.j = @ + 1, !.p = p,
                                     !.turns = @ + 1]
           ELSE IF startsWith(walk.outputs[path], p)
           THEN walk' = [walk EXCEPT !.outputs = withOutput(@, path, p),
                                     !.pc = "for", !.j = @ + 1, !.p = p,
                                     !.turns = @ + 1]
           ELSE walk' = [walk EXCEPT !.p = p, !.turns = @ + 1]
        /\ UNCHANGED << minIn, minOut, nonRootsVars >>

NextWalk == WalkLookups \/ WalkFor \/ WalkWhile

\* ------------------------------------------------------------------ tasks

\* Largest value of the provider's pluginTaskConcurrencyLimit in a run.
MaxPluginLimit == 2

defaultConcurrencyLimit == 10

\* The Deploy actions of the config graph, in the order getDeploys gives them.
DeployOrder == << "A", "B", "D", "E" >>

Deploys == Range(DeployOrder)

\* The Deploy actions of type pulumi.
PulumiDeploys == { "A", "B", "D" }

\* The direct dependencies of each Deploy: B depends on A and on E, which is
\* not a pulumi Deploy.
dependenciesOf == [d \in Deploys |-> IF d = "B" THEN { "A", "E" } ELSE { }]

Null == "null"

makeBaseKey(type, name) == << type, "." >> \o name

\* The tasks of a pulumi command run, a command task and a resolve task for
\* each pulumi Deploy, and those of a deploy command run, a DeployTask for each
\* Deploy.
Tasks ==
    [type : { "plugin", "resolve-action" }, action : PulumiDeploys]
    \cup [type : { "deploy" }, action : Deploys]

getName(task) ==
    IF task.type = "resolve-action" THEN << "deploy", ".", task.action >>
    ELSE << task.action >>

getKey(task) == makeBaseKey(task.type, getName(task))

TaskKeys == { getKey(task) : task \in Tasks }

taskOf(key) == CHOOSE task \in Tasks : getKey(task) = key

\* The names of the sets of actions a command can be run for.
RootChoices == { PulumiDeploys, { "B" }, { "A", "D" } }

\* The sets of actions a run can be told to force.
ForceChoices == { { }, { "A" } }

\* resolveDependencies that takes every earlier pulumi Deploy for a dependency.
pulumiResolveEarlier(task) ==
    LET pos(d) == CHOOSE i \in 1..Len(DeployOrder) : DeployOrder[i] = d
        isDep(d) == d \in PulumiDeploys /\ pos(d) < pos(task.action)
        deps == SelectSeq(DeployOrder, isDep)
    IN  << getKey([type |-> "resolve-action", action |-> task.action]) >>
        \o [i \in 1..Len(deps) |-> getKey([type |-> "plugin", action |-> deps[i]])]

\* resolveDependencies that leaves out the command tasks of the dependencies.
pulumiResolveOnly(task) ==
    << getKey([type |-> "resolve-action", action |-> task.action]) >>

\* resolveDependencies that leaves out the resolve task of the action.
pulumiCommandsOnly(task) ==
    LET isDep(d) == d \in dependenciesOf[task.action] /\ d \in PulumiDeploys
        deps == SelectSeq(DeployOrder, isDep)
    IN  [i \in 1..Len(deps) |-> getKey([type |-> "plugin", action |-> deps[i]])]

\* PulumiPluginCommandTask.resolveDependencies: the resolve task of the action,
\* then a command task for every pulumi Deploy the action depends on directly.
pulumiResolveDependencies(task) ==
    LET pulumiDeployNames == PulumiDeploys
        isDep(d) == d \in dependenciesOf[task.action] /\ d \in pulumiDeployNames
        deps == SelectSeq(DeployOrder, isDep)
    IN  << getKey([type |-> "resolve-action", action |-> task.action]) >>
        \o [i \in 1..Len(deps) |-> getKey([type |-> "plugin", action |-> deps[i]])]

\* getResolveTaskForAction for a Deploy action: the key of its DeployTask.
deployTaskFor(action) == getKey([type |-> "deploy", action |-> action])

\* resolveDependencies that finds no dependency.
actionResolveNone(task) == << >>

\* BaseActionTask.resolveDependencies: the resolve task of every dependency
\* of the action, in the order of the references.
actionResolveDependencies(task) ==
    LET isDep(d) == d \in dependenciesOf[task.action]
        deps == SelectSeq(DeployOrder, isDep)
    IN  [i \in 1..Len(deps) |-> deployTaskFor(deps[i])]

\* resolveDependencies of a task, by its class.
resolveDependencies(task) ==
    IF task.type = "plugin" THEN pulumiResolveDependencies(task)
    ELSE IF task.type = "deploy" THEN actionResolveDependencies(task)
    ELSE << >>

\* A task object as its constructor leaves it: a command task keeps the
\* option in skipRuntimeDependencies and hands no skipDependencies to the base
\* class, a DeployTask hands it on.
taskFor(key, skip) ==
    LET task == CHOOSE t \in Tasks : getKey(t) = key
    IN  IF task.type = "plugin"
        THEN [type |-> task.type, action |-> task.action,
              skipRuntimeDependencies |-> skip, skipDependencies |-> FALSE]
        ELSE IF task.type = "deploy"
        THEN [type |-> task.type, action |-> task.action, skipDependencies |-> skip]
        ELSE [type |-> task.type, action |-> task.action, skipDependencies |-> FALSE]

\* A task that never skips its dependencies.
skipDependenciesOff(task) == FALSE

\* BaseTask.skipDependencies.
skipDependencies(task) ==
    "skipDependencies" \in DOMAIN task /\ task.skipDependencies

Unresolved == [isSet |-> FALSE, v |-> << >>]

\* BaseTask.getDependencies: what it returns, given the memo of the task.
getDependencies(task, memo) ==
    IF ~memo.isSet
    THEN IF skipDependencies(task) THEN << >> ELSE resolveDependencies(task)
    ELSE memo.v

\* The memo of the task after getDependencies.
memoAfter(task, memo) ==
    IF ~memo.isSet /\ ~skipDependencies(task)
    THEN Some(resolveDependencies(task))
    ELSE memo

\* A limit that lets no task in.
concurrencyLimitZero(task, pluginTaskConcurrencyLimit) == 0

\* A command task that keeps the limit of the base class.
concurrencyLimitOfBase(task, pluginTaskConcurrencyLimit) == defaultConcurrencyLimit

\* Every task of the provider's command gets the provider's limit.
concurrencyLimit(task, pluginTaskConcurrencyLimit) ==
    IF task.type = "plugin" THEN pluginTaskConcurrencyLimit
    ELSE defaultConcurrencyLimit

\* A task whose force flag is never set.
forceOff(task) == FALSE

\* The force flag of a task: the command tasks are created with force: false,
\* a resolve task is forced when its action is among the forceActions.
forceOf(task) ==
    IF task.type = "plugin" THEN FALSE ELSE task.action \in run.forceActions

\* action.versionString(): the version of the action, which the task is
\* created with.
versionString(action) == versionStringPrefix \o Digest(<< action >>)

\* What getStatus of a task can return.
statusResults(task) ==
    IF task.type = "plugin" THEN { Null } ELSE { Null, "ready", "not-ready" }

\* ------------------------------------------------------------------ task objects

\* The actions of a config graph, and one of a kind that is none of the four.
Actions ==
    { [kind |-> "Build", name |-> "x"], [kind |-> "Build", name |-> "y"],
      [kind |-> "Deploy", name |-> "x"], [kind |-> "Deploy", name |-> "y"],
      [kind |-> "Run", name |-> "t"],
      [kind |-> "Test", name |-> "x"], [kind |-> "Other", name |-> "w"] }

\* action.getDependencyReferences(): the references as they are declared.
getDependencyReferences(action) ==
    IF action = [kind |-> "Deploy", name |-> "x"]
    THEN << [kind |-> "Run", name |-> "t"], [kind |-> "Build", name |-> "x"] >>
    ELSE IF action = [kind |-> "Test", name |-> "x"]
    THEN << [kind |-> "Deploy", name |-> "x"], [kind |-> "Build", name |-> "x"] >>
    ELSE IF action = [kind |-> "Deploy", name |-> "y"]
    THEN << [kind |-> "Build", name |-> "y"] >>
    ELSE << >>

\* graph.getBuilds(): the Build actions of the config graph.
getBuilds == << [kind |-> "Build", name |-> "x"], [kind |-> "Build", name |-> "y"] >>

\* The type of BuildTask, DeployTask, RunTask and TestTask.
taskTypes ==
    [Build |-> "build", Deploy |-> "deploy", Run |-> "run", Test |-> "test"]

\* The actions a command creates its tasks for: a deploy of x, of y or of
\* both, or a test of x.
CommandChoices ==
    { << [kind |-> "Deploy", name |-> "x"] >>,
      << [kind |-> "Deploy", name |-> "y"] >>,
      << [kind |-> "Deploy", name |-> "y"], [kind |-> "Deploy", name |-> "x"] >>,
      << [kind |-> "Test", name |-> "x"] >> }

\* The forceActions lists a command hands to its tasks.
ForceActionsChoices ==
    { << >>, << [kind |-> "Deploy", name |-> "x"] >>,
      << [kind |-> "Build", name |-> "x"], [kind |-> "Run", name |-> "t"] >> }

\* The parameters of a task that the model follows; a parameter that is left
\* out in the code is FALSE, and an empty list for forceActions.
taskParams(skip, forced, forceActions, forceBuild) ==
    [skipDependencies |-> skip, force |-> forced, forceActions |-> forceActions,
     forceBuild |-> forceBuild]

\* The constructors of BaseActionTask and BaseTask: a new uid, force and
\* skipDependencies as they are given, and forceActions as it is given, with
\* the builds of the graph added under forceBuild.  forceBuild, parent,
\* called, repeated and returned are history: the task was made with
\* forceBuild, the task it is a dependency of, getDependencies was called,
\* and called again, and the set of what the calls returned.
newTask(n, type, action, params) ==
    [uid |-> ToString(n), type |-> type, kind |-> action.kind,
     action |-> action.name, skipDependencies |-> params.skipDependencies,
     force |-> params.force,
     forceActions |-> params.forceActions
                      \o (IF params.forceBuild THEN getBuilds ELSE << >>),
     forceBuild |-> params.forceBuild, parent |-> None,
     resolved |-> Unresolved, resolveCalls |-> 0,
     called |-> FALSE, repeated |-> FALSE, returned |-> { }]

\* getResolveTaskForAction that makes a DeployTask of every action.
getResolveTaskForAny(action, baseParams, n) ==
    Some(newTask(n, "deploy", action, baseParams))

\* getResolveTaskForAction: the n-th task object, of the class of the
\* action's kind, or nothing where it throws.
getResolveTaskForAction(action, baseParams, n) ==
    IF action.kind \in DOMAIN taskTypes
    THEN Some(newTask(n, taskTypes[action.kind], action, baseParams))
    ELSE Unset

\* BaseActionTask.getBaseDependencyParams: the forceActions list of the task
\* is handed on; skipDependencies and forceBuild are not.
getBaseDependencyParams(task) == taskParams(FALSE, FALSE, task.forceActions, FALSE)

\* A dependency task that is never forced.
getResolveTaskForDependencyUnforced(task, action, n) ==
    LET made == getResolveTaskForAction(action, getBaseDependencyParams(task), n)
    IN  IF made.isSet THEN Some([made.v EXCEPT !.parent = task.uid]) ELSE Unset

\* BaseActionTask.getResolveTaskForDependency: the task of the action, with
\* force when forceActions has a reference of the action's kind and name.
getResolveTaskForDependency(task, action, n) ==
    LET isForced == \E i \in 1..Len(task.forceActions) :
                        /\ task.forceActions[i].kind = action.kind
                        /\ task.forceActions[i].name = action.name
        made == getResolveTaskForAction(
                    action, [getBaseDependencyParams(task) EXCEPT !.force = isForced],
                    n)
    IN  IF made.isSet THEN Some([made.v EXCEPT !.parent = task.uid]) ELSE Unset

\* BaseActionTask.resolveDependencies: a task object for every reference, in
\* the order of the references, the first of them the n-th task object.
resolveTasks(task, n) ==
    LET refs == getDependencyReferences([kind |-> task.kind, name |-> task.action])
    IN  [i \in 1..Len(refs) |-> getResolveTaskForDependency(task, refs[i], n + i - 1).v]

\* _resolvedDependencies is taken for set only when it is not empty.
isResolvedNotEmpty(task) == task.resolved.isSet /\ task.resolved.v # << >>

\* getDependencies: !this._resolvedDependencies is false once the array is
\* assigned, and so for an empty array.
isResolved(task) == task.resolved.isSet

\* An id that leaves out the uid.
getIdOfKey(task) == getKey(task)

\* BaseTask.getId.
getId(task) == getKey(task) \o << ".", task.uid >>

\* A command creates a task object for each of its actions.
NewTasks(actions, skip, forceActions, forceBuild) ==
    /\ ~command
    /\ resolveOut.called => resolveOut.threw
    /\ command' = TRUE
    /\ instances' =
          instances
          \o [i \in 1..Len(actions) |->
                 newTask(Len(instances) + i, taskTypes[actions[i].kind],
                         actions[i],
                         taskParams(skip, FALSE, forceActions, forceBuild))]
    /\ UNCHANGED << resolveOut, taskResults, nonTaskVars >>

\* getDependencies of the i-th task object.
GetDependencies(i) ==
    LET task == instances[i]
        calls == ~isResolved(task) /\ ~skipDependencies(task)
        created == IF calls THEN resolveTasks(task, Len(instances) + 1) ELSE << >>
        value == IF isResolved(task) THEN task.resolved.v
                 ELSE [j \in 1..Len(created) |-> created[j].uid]
    IN  /\ i <= Len(instances)
        /\ instances' =
              [instances EXCEPT
                  ![i].resolved = IF calls THEN Some(value) ELSE @,
                  ![i].resolveCalls = IF calls THEN @ + 1 ELSE @,
                  ![i].called = TRUE,
                  ![i].repeated = task.called,
                  ![i].returned = @ \cup { value }]
              \o created
        /\ UNCHANGED << command, resolveOut, taskResults, nonTaskVars >>

\* getResolveTaskForAction is called for an action of whatever kind.
GetResolveTaskForAction(action) ==
    LET task == getResolveTaskForAction(
                    action, taskParams(FALSE, FALSE, << >>, FALSE), Len(instances) + 1)
    IN  /\ ~resolveOut.called /\ ~command
        /\ resolveOut' = [called |-> TRUE, action |-> action,
                          threw |-> ~task.isSet, task |-> task]
        /\ instances' = IF task.isSet THEN Append(instances, task.v) ELSE instances
        /\ UNCHANGED << command, taskResults, nonTaskVars >>

\* The result of the i-th task object is entered in the results map.
Complete(i) ==
    LET task == instances[i]
    IN  /\ i <= Len(instances)
        /\ \A j \in 1..Len(instances) : instances[j].called
        /\ getKey(task) \notin DOMAIN taskResults
        /\ taskResults' =
              [k \in DOMAIN taskResults \cup { getKey(task) } |->
                  IF k = getKey(task)
                  THEN [type |-> task.type, name |-> getName(task)]
                  ELSE taskResults[k]]
        /\ UNCHANGED << instances, command, resolveOut, nonTaskVars >>

IdleTask ==
    /\ instances = << >>
    /\ command = FALSE
    /\ resolveOut = [called |-> FALSE, action |-> None, threw |-> FALSE,
                     task |-> Unset]
    /\ taskResults = << >>

\* Largest number of task objects of a run.
MaxTasks == 5

NextTask ==
    \/ \E actions \in CommandChoices, skip \in BOOLEAN,
          forceActions \in ForceActionsChoices, forceBuild \in BOOLEAN :
          NewTasks(actions, skip, forceActions, forceBuild)
    \/ \E i \in 1..MaxTasks : GetDependencies(i)
    \/ \E action \in Actions : GetResolveTaskForAction(action)
    \/ \E i \in 1..MaxTasks : Complete(i)

\* ------------------------------------------------------------------ graph run

depsOf(key) == Range(resolvedDependencies[key].v)

hasResult(key) == key \in DOMAIN results

failedOrAborted(key) ==
    hasResult(key) /\ (results[key].error # Null \/ results[key].aborted)

\* A run that goes on after an error.
stoppedNever == FALSE

\* The run was told to stop on the first error, and a task has failed.
stopped ==
    run.throwOnError /\ \E k \in DOMAIN results : results[k].error # Null

\* The tasks of a kind whose process call is in flight.
processing(type) ==
    { k \in TaskKeys : phase[k] = "processing" /\ taskOf(k).type = type }

\* A result that carries an error also when the task was aborted.
graphResultWithError(key, aborted, error, output) ==
    [name |-> getName(taskOf(key)), type |-> taskOf(key).type,
     version |-> versionString(taskOf(key).action),
     aborted |-> aborted, error |-> IF aborted THEN "error" ELSE error,
     result |-> output]

graphResult(key, aborted, error, output) ==
    [name |-> getName(taskOf(key)), type |-> taskOf(key).type,
     version |-> versionString(taskOf(key).action),
     aborted |-> aborted, error |-> error, result |-> output]

\* A task that goes back to the start when its result is written.
completeAndRetry(key, r) ==
    /\ results' = [k \in DOMAIN results \cup { key } |->
                      IF k = key THEN r ELSE results[k]]
    /\ phase' = [phase EXCEPT ![key] = "pending"]

complete(key, r) ==
    /\ results' = [k \in DOMAIN results \cup { key } |->
                      IF k = key THEN r ELSE results[k]]
    /\ phase' = [phase EXCEPT ![key] = "complete"]

RECURSIVE closure(_, _, _)
\* The keys of the tasks reached from the given ones through getDependencies.
closure(keys, seen, skip) ==
    IF keys \subseteq seen THEN seen
    ELSE LET new == keys \ seen
         IN  closure(UNION { Range(getDependencies(taskFor(k, skip), Unresolved)) :
                               k \in new }, seen \cup new, skip)

\* The command handler: a command task for each named pulumi action, handed
\* to processTasks.  The handler passes throwOnError: true; other callers of
\* processTasks leave it unset, so both are drawn.  The executor asks every
\* task for its dependencies, and theirs, before it runs any.
StartRun(names, throwOnError, limit, forceActions, skipRuntimeDependencies) ==
    LET rootKeys == { getKey([type |-> "plugin", action |-> a]) : a \in names }
        graph == closure(rootKeys, { }, skipRuntimeDependencies)
    IN  /\ ~run.started
        /\ run' = [started |-> TRUE, command |-> "pulumi", names |-> names,
                   throwOnError |-> throwOnError,
                   pluginTaskConcurrencyLimit |-> limit,
                   forceActions |-> forceActions,
                   skipDependencies |-> skipRuntimeDependencies]
        /\ phase' = [k \in TaskKeys |-> IF k \in graph THEN "pending" ELSE "absent"]
        /\ resolvedDependencies' =
              [k \in TaskKeys |->
                  IF k \in graph
                  THEN memoAfter(taskFor(k, skipRuntimeDependencies),
                                 resolvedDependencies[k])
                  ELSE resolvedDependencies[k]]
        /\ UNCHANGED << results, statusCalls, processCalls, statusOf >>
        /\ UNCHANGED nonGraphVars

\* The deploy command: a DeployTask for each named Deploy, created with the
\* skip-dependencies option of the command, handed to processTasks.
StartDeployRun(names, throwOnError, skip) ==
    LET rootKeys == { getKey([type |-> "deploy", action |-> a]) : a \in names }
        graph == closure(rootKeys, { }, skip)
    IN  /\ ~run.started
        /\ run' = [started |-> TRUE, command |-> "deploy", names |-> names,
                   throwOnError |-> throwOnError,
                   pluginTaskConcurrencyLimit |-> 1,
                   forceActions |-> { },
                   skipDependencies |-> skip]
        /\ phase' = [k \in TaskKeys |-> IF k \in graph THEN "pending" ELSE "absent"]
        /\ resolvedDependencies' =
              [k \in TaskKeys |->
                  IF k \in graph
                  THEN memoAfter(taskFor(k, skip), resolvedDependencies[k])
                  ELSE resolvedDependencies[k]]
        /\ UNCHANGED << results, statusCalls, processCalls, statusOf >>
        /\ UNCHANGED nonGraphVars

\* A dependency has failed or was aborted: the task is aborted.
Abort(key) ==
    /\ phase[key] = "pending"
    /\ \E d \in depsOf(key) : failedOrAborted(d)
    /\ complete(key, graphResult(key, TRUE, Null, Null))
    /\ UNCHANGED << run, resolvedDependencies, statusCalls, processCalls, statusOf >>
    /\ UNCHANGED nonGraphVars

\* Every dependency has its result: getStatus is called.
StartStatus(key) ==
    /\ phase[key] = "pending"
    /\ \A d \in depsOf(key) : hasResult(d) /\ ~failedOrAborted(d)
    /\ ~stopped
    /\ phase' = [phase EXCEPT ![key] = "status"]
    /\ statusCalls' = [statusCalls EXCEPT ![key] = @ + 1]
    /\ UNCHANGED << run, resolvedDependencies, results, processCalls, statusOf >>
    /\ UNCHANGED nonGraphVars

\* getStatus returns: the task is done when the status is ready and the task
\* is not forced, else it is to be processed.
StatusReturn(key, status) ==
    /\ phase[key] = "status"
    /\ status \in statusResults(taskOf(key))
    /\ IF status = "ready" /\ ~forceOf(taskOf(key))
       THEN complete(key, graphResult(key, FALSE, Null, status))
       ELSE phase' = [phase EXCEPT ![key] = "ready"] /\ UNCHANGED results
    /\ statusOf' = [statusOf EXCEPT ![key] = status]
    /\ UNCHANGED << run, resolvedDependencies, statusCalls, processCalls >>
    /\ UNCHANGED nonGraphVars

\* getStatus throws.
StatusFail(key) ==
    /\ phase[key] = "status"
    /\ complete(key, graphResult(key, FALSE, "error", Null))
    /\ UNCHANGED << run, resolvedDependencies, statusCalls, processCalls, statusOf >>
    /\ UNCHANGED nonGraphVars

\* process is called without a look at where the task is.
StartProcessAnyTime(key) ==
    LET task == taskOf(key)
    IN  /\ phase[key] \in { "status", "ready" }
        /\ phase' = [phase EXCEPT ![key] = "processing"]
        /\ processCalls' = [processCalls EXCEPT ![key] = @ + 1]
        /\ UNCHANGED << run, resolvedDependencies, results, statusCalls, statusOf >>
        /\ UNCHANGED nonGraphVars

\* process is called, when the limit of the task's kind allows it.
StartProcess(key) ==
    LET task == taskOf(key)
    IN  /\ phase[key] = "ready"
        /\ Cardinality(processing(task.type))
              < concurrencyLimit(task, run.pluginTaskConcurrencyLimit)
        /\ phase' = [phase EXCEPT ![key] = "processing"]
        /\ processCalls' = [processCalls EXCEPT ![key] = @ + 1]
        /\ UNCHANGED << run, resolvedDependencies, results, statusCalls, statusOf >>
        /\ UNCHANGED nonGraphVars

\* process returns.
ProcessReturn(key) ==
    /\ phase[key] = "processing"
    /\ complete(key, graphResult(key, FALSE, Null, "ok"))
    /\ UNCHANGED << run, resolvedDependencies, statusCalls, processCalls, statusOf >>
    /\ UNCHANGED nonGraphVars

\* process throws.
ProcessFail(key) ==
    /\ phase[key] = "processing"
    /\ complete(key, graphResult(key, FALSE, "error", Null))
    /\ UNCHANGED << run, resolvedDependencies, statusCalls, processCalls, statusOf >>
    /\ UNCHANGED nonGraphVars

IdleGraph ==
    /\ run = [started |-> FALSE, command |-> "none", names |-> { },
              throwOnError |-> FALSE, pluginTaskConcurrencyLimit |-> 1,
              forceActions |-> { }, skipDependencies |-> FALSE]
    /\ phase = [k \in TaskKeys |-> "absent"]
    /\ resolvedDependencies = [k \in TaskKeys |-> Unresolved]
    /\ results = << >>
    /\ statusCalls = [k \in TaskKeys |-> 0]
    /\ processCalls = [k \in TaskKeys |-> 0]
    /\ statusOf = [k \in TaskKeys |-> "none"]

NextGraph ==
    \/ \E names \in RootChoices, throwOnError \in BOOLEAN,
          limit \in 1..MaxPluginLimit, forceActions \in ForceChoices :
             StartRun(names, throwOnError, limit, forceActions, FALSE)
    \/ \E key \in TaskKeys : Abort(key)
    \/ \E key \in TaskKeys : StartStatus(key)
    \/ \E key \in TaskKeys, status \in { Null, "ready", "not-ready" } :
          StatusReturn(key, status)
    \/ \E key \in TaskKeys : StatusFail(key)
    \/ \E key \in TaskKeys : StartProcess(key)
    \/ \E key \in TaskKeys : ProcessReturn(key)
    \/ \E key \in TaskKeys : ProcessFail(key)

\* ------------------------------------------------------------------ specifications

\* The configs of the runs that scan without writing: two of them have
\* different cache keys and one lock key.
ScanConfigs == { x \in Configs : x.name \in { "root", "empty", "g", "colon" } }

\* The configs of the runs that write: a directory and its parent.
WriteConfigs == { x \in Configs : x.name \in { "root", "a" } }

NextScan ==
    \/ \E c \in Callers, config \in ScanConfigs, forced \in BOOLEAN :
          Call(c, config, forced)
    \/ \E c \in Callers : GetFilesRead(c)
    \/ \E c \in Callers : GetFilesReturn(c)
    \/ \E c \in Callers : GetFilesFail(c)

InitScan ==
    InitVcs /\ IdleSort /\ IdleVersion /\ IdleGraph /\ IdleRoots /\ IdleTask /\ IdleCount

\* Concurrent getTreeVersion calls, forced or not, whose scans may fail.
SpecScan == InitScan /\ [][NextScan]_vars

NextWrite ==
    \/ \E c \in Callers, config \in WriteConfigs : Call(c, config, FALSE)
    \/ \E c \in Callers : GetFilesRead(c)
    \/ \E c \in Callers : GetFilesReturn(c)
    \/ \E w \in Writers, path \in WritablePaths, data \in ContentHashes :
          WriteFileWrite(w, path, data)
    \/ \E w \in Writers : WriteFileDone(w)

InitWrite ==
    InitVcs /\ IdleSort /\ IdleVersion /\ IdleGraph /\ IdleRoots /\ IdleTask /\ IdleCount

\* getTreeVersion calls that run while writeFile calls change the tree.
SpecWrite == InitWrite /\ [][NextWrite]_vars

InitSortRun ==
    InitSort /\ InitVcs /\ IdleVersion /\ IdleGraph /\ IdleRoots /\ IdleTask /\ IdleCount

\* The tree version of one set of files reported in two orders.
SpecSort == InitSortRun /\ [][ComputeTreeVersions]_vars

InitGraph ==
    IdleGraph /\ InitVcs /\ IdleSort /\ IdleVersion /\ IdleRoots /\ IdleTask /\ IdleCount

\* A run of a pulumi plugin command over the task graph.
SpecGraph == InitGraph /\ [][NextGraph]_vars

InitGraphFair ==
    IdleGraph /\ InitVcs /\ IdleSort /\ IdleVersion /\ IdleRoots /\ IdleTask /\ IdleCount

\* The steps of a run in which no action is forced.
NextGraphFair ==
    \/ \E names \in RootChoices, throwOnError \in BOOLEAN,
          limit \in 1..MaxPluginLimit :
             StartRun(names, throwOnError, limit, { }, FALSE)
    \/ \E key \in TaskKeys : Abort(key)
    \/ \E key \in TaskKeys : StartStatus(key)
    \/ \E key \in TaskKeys, status \in { Null, "ready", "not-ready" } :
          StatusReturn(key, status)
    \/ \E key \in TaskKeys : StatusFail(key)
    \/ \E key \in TaskKeys : StartProcess(key)
    \/ \E key \in TaskKeys : ProcessReturn(key)
    \/ \E key \in TaskKeys : ProcessFail(key)

\* Such a run, in which every call returns or fails and the executor takes a
\* step whenever one is possible.
SpecGraphFair ==
    InitGraphFair /\ [][NextGraphFair]_vars /\ WF_vars(NextGraphFair)

InitVersionRun ==
    InitVersion /\ InitVcs /\ IdleSort /\ IdleGraph /\ IdleRoots /\ IdleTask /\ IdleCount

\* The version strings of two builds of a project.
SpecVersion == InitVersionRun /\ [][ComputeVersions]_vars

InitSkip ==
    IdleGraph /\ InitVcs /\ IdleSort /\ IdleVersion /\ IdleRoots /\ IdleTask /\ IdleCount

\* The steps of a pulumi command given the skip-dependencies option.
NextSkip ==
    \/ \E names \in RootChoices, throwOnError \in BOOLEAN,
          limit \in 1..MaxPluginLimit :
             StartRun(names, throwOnError, limit, { }, TRUE)
    \/ \E key \in TaskKeys : Abort(key)
    \/ \E key \in TaskKeys : StartStatus(key)
    \/ \E key \in TaskKeys, status \in { Null, "ready", "not-ready" } :
          StatusReturn(key, status)
    \/ \E key \in TaskKeys : StatusFail(key)
    \/ \E key \in TaskKeys : StartProcess(key)
    \/ \E key \in TaskKeys : ProcessReturn(key)
    \/ \E key \in TaskKeys : ProcessFail(key)

\* A run of a pulumi plugin command given the skip-dependencies option.
SpecSkip == InitSkip /\ [][NextSkip]_vars

\* The sets of Deploys a deploy command can be run for.
DeployRootChoices == { Deploys, { "B" }, { "B", "D" } }

InitDeploy ==
    IdleGraph /\ InitVcs /\ IdleSort /\ IdleVersion /\ IdleRoots /\ IdleTask /\ IdleCount

\* The steps of a deploy command, with the skip-dependencies option or not.
NextDeploy ==
    \/ \E names \in DeployRootChoices, throwOnError, skip \in BOOLEAN :
          StartDeployRun(names, throwOnError, skip)
    \/ \E key \in TaskKeys : Abort(key)
    \/ \E key \in TaskKeys : StartStatus(key)
    \/ \E key \in TaskKeys, status \in { Null, "ready", "not-ready" } :
          StatusReturn(key, status)
    \/ \E key \in TaskKeys : StatusFail(key)
    \/ \E key \in TaskKeys : StartProcess(key)
    \/ \E key \in TaskKeys : ProcessReturn(key)
    \/ \E key \in TaskKeys : ProcessFail(key)

\* A run of the deploy command over the DeployTasks.
SpecDeploy == InitDeploy /\ [][NextDeploy]_vars

InitRootsRun ==
    InitRoots /\ InitVcs /\ IdleSort /\ IdleVersion /\ IdleGraph /\ IdleTask /\ IdleCount

\* getMinimalRoots of some paths of a file system.
SpecRoots == InitRootsRun /\ [][GetMinimalRoots]_vars

InitTask ==
    IdleTask /\ InitVcs /\ IdleSort /\ IdleVersion /\ IdleGraph /\ IdleRoots /\ IdleCount

\* Task objects are created and asked for their dependencies.
SpecTask == InitTask /\ [][NextTask]_vars

\* One call more than in the other runs.
RefreshCallers == 1..(NCallers + 1)

InitRefresh ==
    InitVcsFor(RefreshCallers) /\ IdleSort /\ IdleVersion /\ IdleGraph /\ IdleRoots
    /\ IdleTask /\ IdleCount

NextRefresh ==
    \/ \E c \in RefreshCallers, config \in { x \in Configs : x.name = "a" },
          forced \in BOOLEAN : Call(c, config, forced)
    \/ \E c \in RefreshCallers : GetFilesRead(c)
    \/ \E c \in RefreshCallers : GetFilesReturn(c)
    \/ \E data \in ContentHashes : WriteFileWrite(1, FileF, data)
    \/ WriteFileDone(1)

\* getTreeVersion calls for one config, forced or not, while a writeFile call
\* changes a file of its tree.
SpecRefresh == InitRefresh /\ [][NextRefresh]_vars

\* Two configs of one directory, each in a config file of its own.
ShareConfigs == { x \in Configs : x.name \in { "a", "a2" } }

NextShare ==
    \/ \E c \in RefreshCallers, config \in ShareConfigs, forced \in BOOLEAN :
          Call(c, config, forced)
    \/ \E c \in RefreshCallers : GetFilesRead(c)
    \/ \E c \in RefreshCallers : GetFilesReturn(c)

\* getTreeVersion calls, forced or not, for two configs that scan one
\* directory and are written in different config files.
SpecShare == InitRefresh /\ [][NextShare]_vars

InitCountRun ==
    InitCount /\ InitVcs /\ IdleSort /\ IdleVersion /\ IdleGraph /\ IdleRoots
    /\ IdleTask

\* One scan for every number of files around the warning threshold.
SpecCount == InitCountRun /\ [][CountFiles]_vars

InitRenameRun ==
    InitRename /\ InitVcs /\ IdleVersion /\ IdleGraph /\ IdleRoots /\ IdleTask
    /\ IdleCount

\* The tree versions of a directory before and after a rename in it.
SpecRename == InitRenameRun /\ [][ComputeTreeVersions]_vars

NextKey ==
    \/ \E c \in Callers, config \in KeyConfigs : Call(c, config, FALSE)
    \/ \E c \in Callers : GetFilesRead(c)
    \/ \E c \in Callers : GetFilesReturn(c)

\* getTreeVersion calls for configs that list the same filters in different
\* orders.
SpecKey == InitScan /\ [][NextKey]_vars

InitWalkRun ==
    InitWalk /\ InitVcs /\ IdleSort /\ IdleVersion /\ IdleGraph /\ IdleTask
    /\ IdleCount

\* A getMinimalRoots call followed through its loops, one turn at a time;
\* the loops run without waiting for anything, so a turn that can be taken
\* is taken.
SpecWalk == InitWalkRun /\ [][NextWalk]_vars /\ WF_vars(NextWalk)

\* ------------------------------------------------------------------ claims

callKey(c) == getResourceTreeCacheKey(cfg[c])

InFlight == { c \in Callers : pc[c] \in { "scanning", "read" } }

\* The calls with the given cache key that have invoked getFiles.
ScansOf(key) == { c \in Callers : pc[c] # "idle" /\ callKey(c) = key /\ scanned[c] }

\* No call for the key is forced or has failed, the key's config scans, and no
\* writeFile has invalidated anything.
Undisturbed(key) ==
    /\ Completed = { }
    /\ \A c \in Callers :
          pc[c] # "idle" /\ callKey(c) = key =>
              ~force[c] /\ pc[c] # "failed" /\ ~includesNothing(cfg[c])

\* C1: non-forced calls with one cache key, an include filter that is unset or
\* non-empty and no entry cached before them invoke getFiles once in total,
\* and all of them return the same TreeVersion.
C1_ScanOnce ==
    \A c \in Callers :
        pc[c] # "idle" /\ Undisturbed(callKey(c)) =>
            /\ Cardinality(ScansOf(callKey(c))) <= 1
            /\ pc[c] = "done" =>
                  /\ Cardinality(ScansOf(callKey(c))) = 1
                  /\ \A d \in Callers :
                        pc[d] = "done" /\ callKey(d) = callKey(c) =>
                            result[d] = result[c]

\* Two calls for one key have returned, one after waiting for the lock while
\* the other one scanned.
C1_Witness ==
    \E c, d \in Callers :
        /\ c # d /\ pc[c] = "done" /\ pc[d] = "done"
        /\ callKey(c) = callKey(d) /\ Undisturbed(callKey(c))
        /\ scanned[c] /\ waited[d] /\ ~scanned[d]
        /\ result[c] = result[d] /\ result[c].files # << >>

\* The scan that holds the lock a waiting call is queued on.
HolderOf(c) ==
    { d \in InFlight : ScanLockKey(callKey(d)) = ScanLockKey(callKey(c)) }

\* At most one scan is in flight for a cache key.
OneScanPerKey ==
    \A c, d \in InFlight : c # d => callKey(c) # callKey(d)

\* C2: at most one scan is in flight for a cache key, and a call waits for the
\* lock only behind a scan of its own cache key.
C2_KeyedLock ==
    /\ OneScanPerKey
    /\ \A c \in Callers :
          pc[c] = "waiting" => \A d \in HolderOf(c) : callKey(d) = callKey(c)

\* The tree version a scan of the given file system gives for the config.
expectedTreeVersion(config, files) ==
    IF includesNothing(config) THEN emptyTreeVersion
    ELSE treeVersionOf(config,
             CHOOSE order \in Perms(getFilesSet(files, getSourcePath(config),
                                                 config.include, scanExclude(config))) :
                 TRUE)

\* The writeFile calls that had returned when call c began and wrote at or
\* below its source path.
WritesBefore(c) ==
    { w \in startSeen[c] :
        IsPrefix(pathToCacheContext(getSourcePath(cfg[c])),
                 pathToCacheContext(wpath[w])) }

\* C3: a non-forced call that begins after writeFile has returned, for a source
\* path that is the written path or an ancestor of it, returns a tree version
\* of a scan that saw the written data.
C3_WriteVisible ==
    \A c \in Callers :
        pc[c] = "done" /\ ~force[c] =>
            \A w \in WritesBefore(c) :
                \E i \in wIdx[w]..Len(fsHist) :
                    result[c] = expectedTreeVersion(cfg[c], fsHist[i])

\* The entries invalidateUp has to remove for a write to path.
Covered(ch, path) ==
    { k \in DOMAIN ch : IsPrefix(ch[k].context, pathToCacheContext(path)) }

\* A step in which writeFile call w invalidates the cache.
Invalidates(w) == wpc[w] = "written" /\ wpc'[w] = "done"

C5_Original ==
    [][ \A w \in Writers :
            Invalidates(w) =>
                \A k \in DOMAIN cache :
                    IF IsPrefix(pathToCacheContext(wpath[w]), cache[k].context)
                    THEN ~CacheHas(cache', k)
                    ELSE CacheHas(cache', k) /\ cache'[k] = cache[k]
      ]_vcsVars

\* C5: writeFile to P removes every entry whose context is P or an ancestor of
\* P and leaves every other entry as it was.
C5_InvalidationScope ==
    [][ \A w \in Writers :
            Invalidates(w) =>
                /\ DOMAIN cache' = DOMAIN cache \ Covered(cache, wpath[w])
                /\ \A k \in DOMAIN cache' : cache'[k] = cache[k]
      ]_vcsVars

\* A writeFile has removed one entry and left another.
C5_Witness ==
    \E w \in Writers :
        /\ wpc[w] = "done"
        /\ wEvicted[w] # { }
        /\ wKept[w] # { }

\* C6: the files of one scan, reported in any two orders, give the same
\* contentHash and the same files sequence.
C6_OrderIndependent ==
    sortOut # << >> =>
        /\ sortOut[1].contentHash = sortOut[2].contentHash
        /\ sortOut[1].files = sortOut[2].files

\* Two or more files were reported in two different orders.
C6_Witness ==
    /\ sortOut # << >>
    /\ sortIn.first # sortIn.second
    /\ Len(sortOut[1].files) >= 2
    /\ sortOut[1] = sortOut[2]

\* The tasks a task depends on by the config graph: a command task on the
\* resolve task of its action and on the command tasks of the pulumi Deploys
\* its action depends on directly, a DeployTask on the DeployTasks of the
\* Deploys its action depends on directly.
directDeps(key) ==
    LET task == taskOf(key)
    IN  IF task.type = "deploy"
        THEN { getKey([type |-> "deploy", action |-> d]) :
                  d \in dependenciesOf[task.action] }
        ELSE IF task.type # "plugin" THEN { }
        ELSE { getKey([type |-> "resolve-action", action |-> task.action]) }
             \cup { getKey([type |-> "plugin", action |-> d]) :
                       d \in dependenciesOf[task.action] \cap PulumiDeploys }

RECURSIVE allDeps(_)
\* The direct and transitive dependencies of a task.
allDeps(key) ==
    directDeps(key) \cup UNION { allDeps(d) : d \in directDeps(key) }

\* Nothing more happens in the run.
quiescent == run.started /\ ~ENABLED NextGraph

\* C7: a task with a failed or aborted dependency, direct or transitive, never
\* has getStatus or process called, its result is aborted without error and
\* without result, and it has that result when the run ends; a task whose own
\* call failed has an error and is not aborted.
C7_AbortPropagation ==
    \A k \in TaskKeys :
        /\ (\E d \in allDeps(k) : failedOrAborted(d)) =>
              /\ statusCalls[k] = 0 /\ processCalls[k] = 0
              /\ hasResult(k) =>
                    /\ results[k].aborted
                    /\ results[k].error = Null /\ results[k].result = Null
              /\ quiescent /\ phase[k] # "absent" => hasResult(k)
        /\ hasResult(k) /\ results[k].error # Null =>
              ~results[k].aborted /\ statusCalls[k] > 0

\* The resolve task of A has failed, and the command tasks of A and of B,
\* which depends on A, have ended aborted.
C7_Witness ==
    LET rA == getKey([type |-> "resolve-action", action |-> "A"])
        pA == getKey([type |-> "plugin", action |-> "A"])
        pB == getKey([type |-> "plugin", action |-> "B"])
    IN  /\ hasResult(rA) /\ results[rA].error # Null /\ ~results[rA].aborted
        /\ hasResult(pA) /\ results[pA].aborted /\ results[pA].error = Null
        /\ hasResult(pB) /\ results[pB].aborted /\ results[pB].error = Null
        /\ quiescent

C9_ConcurrencyBound ==
    \A type \in { "plugin", "resolve-action" } :
        Cardinality(processing(type))
            <= IF type = "plugin" THEN run.pluginTaskConcurrencyLimit
               ELSE defaultConcurrencyLimit

\* As many command tasks as the limit allows are in process and another one
\* is ready for it, while a task of the other kind is in process as well.
C9_Witness ==
    /\ Cardinality(processing("plugin")) = run.pluginTaskConcurrencyLimit
    /\ \E k \in TaskKeys : taskOf(k).type = "plugin" /\ phase[k] = "ready"
    /\ processing("resolve-action") # { }

\* C10: process is called for a task only when every task its getDependencies
\* returned, and every task it depends on by the config graph, has a result.
C10_DependencyOrder ==
    \A k \in TaskKeys :
        processCalls[k] > 0 =>
            \A d \in depsOf(k) \cup directDeps(k) : hasResult(d)

\* The command task of B is in process after those of its dependencies ended.
C10_Witness ==
    LET pA == getKey([type |-> "plugin", action |-> "A"])
        pB == getKey([type |-> "plugin", action |-> "B"])
    IN  /\ phase[pB] = "processing"
        /\ hasResult(pA) /\ results[pA].result # Null

\* C11: process is called for a task only after getStatus was called for it
\* and has returned.
C11_StatusBeforeProcess ==
    \A k \in TaskKeys :
        processCalls[k] > 0 \/ phase[k] = "processing" =>
            statusCalls[k] > 0 /\ statusOf[k] # "none"

\* process is in flight for a task whose getStatus has returned null.
C11_Witness ==
    \E k \in TaskKeys :
        phase[k] = "processing" /\ statusCalls[k] = 1 /\ statusOf[k] = Null

\* The task was created with force set.
forced(k) == taskOf(k).type = "resolve-action" /\ taskOf(k).action \in run.forceActions

\* C12: a task with a result that is not aborted and whose getStatus returned
\* was processed when it is forced, was not processed when it is not forced and
\* the status was ready, and was processed when the status was null.
C12_ForceAndSkip ==
    \A k \in TaskKeys :
        hasResult(k) /\ ~results[k].aborted /\ statusOf[k] # "none" =>
            /\ forced(k) => processCalls[k] = 1
            /\ ~forced(k) /\ statusOf[k] = "ready" =>
                  processCalls[k] = 0 /\ results[k].result = "ready"
            /\ statusOf[k] = Null => processCalls[k] = 1

\* A forced task was processed although its status was ready, another one
\* with that status was skipped, and a task with status null was processed.
C12_Witness ==
    /\ \E k \in TaskKeys :
          hasResult(k) /\ forced(k) /\ statusOf[k] = "ready" /\ processCalls[k] = 1
    /\ \E k \in TaskKeys :
          hasResult(k) /\ ~forced(k) /\ statusOf[k] = "ready" /\ processCalls[k] = 0
    /\ \E k \in TaskKeys :
          hasResult(k) /\ statusOf[k] = Null /\ processCalls[k] = 1

\* The number of task objects made for a key, at the least: one by the
\* handler for a named action, and one by every task that depends on it.
instantiations(k) ==
    (IF taskOf(k).type = "plugin" /\ taskOf(k).action \in run.names THEN 1 ELSE 0)
    + Cardinality({ j \in TaskKeys : phase[j] # "absent" /\ k \in depsOf(j) })

\* C13: getStatus and process are called at most once for a task key, and a
\* result, once written, stays as it is.
C13_WriteOnce ==
    /\ [](\A k \in TaskKeys : statusCalls[k] <= 1 /\ processCalls[k] <= 1)
    /\ [][\A k \in DOMAIN results :
             k \in DOMAIN results' /\ results'[k] = results[k]]_vars

\* A key for which two task objects were made has its result, after one
\* process call, and so has the task that depends on it.
C13_Witness ==
    \E k, j \in TaskKeys :
        /\ instantiations(k) >= 2 /\ k \in depsOf(j)
        /\ hasResult(k) /\ processCalls[k] = 1
        /\ hasResult(j) /\ processCalls[j] = 1

\* The run was told to stop on the first error and a task has failed.
firstError ==
    run.throwOnError /\ \E k \in DOMAIN results : results[k].error # Null

started(k) == phase[k] \in { "status", "ready", "processing" }

\* C14: after the first error of a run told to stop on it no getStatus call
\* is made, an aborted task has never been started, and when nothing more
\* happens every task that was started has a result of its own.
C14_StopOnFirstError ==
    /\ [][firstError => statusCalls' = statusCalls]_vars
    /\ [](\A k \in TaskKeys :
             /\ hasResult(k) /\ results[k].aborted =>
                   statusCalls[k] = 0 /\ processCalls[k] = 0
             /\ firstError /\ quiescent =>
                   /\ ~started(k)
                   /\ statusCalls[k] > 0 => hasResult(k) /\ ~results[k].aborted)

\* The run has stopped on an error: a task that was in flight then has
\* completed, and a task that had not started is left without a result.
C14_Witness ==
    /\ firstError /\ quiescent
    /\ \E k \in TaskKeys : hasResult(k) /\ results[k].result = "ok"
    /\ \E k \in TaskKeys : phase[k] = "pending" /\ statusCalls[k] = 0

\* The task is part of the run and none of its dependencies failed or aborted.
unaffected(k) ==
    phase[k] # "absent" /\ \A d \in allDeps(k) : ~failedOrAborted(d)

\* An error is written to a result by the task's own call in flight, and the
\* task is not processed again.
errorIsOwn ==
    [][\A k \in TaskKeys :
          ~hasResult(k) /\ k \in DOMAIN results' /\ results'[k].error # Null =>
              /\ phase[k] \in { "status", "processing" }
              /\ ~results'[k].aborted /\ results'[k].result = Null]_vars
    /\ [][\A k \in TaskKeys :
             hasResult(k) /\ results[k].error # Null =>
                 processCalls'[k] = processCalls[k]]_vars

\* C15 as it is stated: at the end of every run a task that depends on no
\* failed task has a result of its own.
C15_Original ==
    [](quiescent =>
          \A k \in TaskKeys : unaffected(k) => hasResult(k) /\ ~results[k].aborted)

\* C15: a failure is recorded as the error of the task's own result and the
\* task is not processed again; at the end of a run that was not told to stop
\* on the first error a task that depends on no failed task has a result of
\* its own.
C15_ErrorIsolation ==
    /\ errorIsOwn
    /\ [](quiescent /\ ~run.throwOnError =>
             \A k \in TaskKeys :
                 unaffected(k) => hasResult(k) /\ ~results[k].aborted)

\* A run has ended with a failed task, a task aborted for it, and a task
\* that does not depend on it completed.
C15_Witness ==
    /\ quiescent /\ ~run.throwOnError
    /\ \E k \in TaskKeys : hasResult(k) /\ results[k].error # Null
    /\ \E k \in TaskKeys : hasResult(k) /\ results[k].aborted
    /\ \E k \in TaskKeys :
          /\ taskOf(k).type = "plugin" /\ unaffected(k)
          /\ hasResult(k) /\ results[k].result = "ok"

\* Every task of the run has a result.
allHaveResults == \A k \in TaskKeys : phase[k] # "absent" => hasResult(k)

\* C16 as it is stated: every run ends with a result for every task.
C16_Original == <>(quiescent /\ allHaveResults)

\* C16: every run ends; at the end every task has a result, or the run has
\* stopped on the first error and every task that was started or has a failed
\* or aborted dependency has one.
C16_Termination ==
    <>(/\ quiescent
       /\ \/ allHaveResults
          \/ /\ firstError
             /\ \A k \in TaskKeys :
                   statusCalls[k] > 0 \/ ~unaffected(k) =>
                       phase[k] = "absent" \/ hasResult(k))

\* A run has ended with a result for every command task and resolve task.
C16_Witness ==
    /\ quiescent /\ allHaveResults
    /\ DOMAIN results = { k \in TaskKeys : taskOf(k).type # "deploy" }

RECURSIVE upstream(_)
\* The modules a module is built from, directly or through others.
upstream(m) ==
    buildDependencies[m] \cup UNION { upstream(d) : d \in buildDependencies[m] }

computed == verOut # << >>

C18_OrderOfDependencies ==
    computed /\ verIn.config[1] = verIn.config[2]
             /\ verIn.hashes[1] = verIn.hashes[2] =>
        verOut[1] = verOut[2]

\* The versions of the two dependencies of c were handed over in two orders.
C18_Witness ==
    /\ computed /\ verIn.config[1] = verIn.config[2]
    /\ verIn.hashes[1] = verIn.hashes[2]
    /\ verIn.order[1]["c"] # verIn.order[2]["c"]
    /\ verOut[1].module["c"] = verOut[2].module["c"]

agreeOn(fields) ==
    \A f \in fields : verIn.config[1][f] = verIn.config[2][f]

sameTrees == verIn.hashes[1] = verIn.hashes[2]

\* C19 as it is stated: the version strings of a are the same when the two
\* configs agree on name, type, spec, variables and inputs, and differ when
\* they do not.
C19_Original ==
    computed /\ sameTrees =>
        (verOut[1].module["a"] = verOut[2].module["a"])
            = agreeOn({ "name", "type", "spec", "variables", "inputs" })

\* C19: without a build config the version strings of a are the same exactly
\* when the two configs agree on apiVersion, name, spec, type, variables,
\* varfile and inputs; with a build config in both, exactly when the build
\* configs are the same; and they differ when only one config has one.
C19_HashedConfig ==
    computed /\ sameTrees =>
        LET first == verIn.config[1]
            second == verIn.config[2]
            same == verOut[1].module["a"] = verOut[2].module["a"]
        IN  IF first.buildConfig = None /\ second.buildConfig = None
            THEN same = agreeOn(Range(pickedFields))
            ELSE same = (first.buildConfig = second.buildConfig)

\* Two configs without a build config that differ in the path alone have the
\* same version string.
C19_Witness ==
    /\ computed /\ sameTrees
    /\ verIn.config[1].buildConfig = None /\ verIn.config[2].buildConfig = None
    /\ verIn.config[1].path # verIn.config[2].path
    /\ agreeOn(Range(pickedFields))
    /\ verOut[1].module["a"] = verOut[2].module["a"]

\* The string is what hashStrings returns: the first 10 hex characters of a
\* digest.
isHash(x) == Len(x) >= 2 /\ x[1] = "<" /\ x[Len(x)] = ">"

isVersionString(v) ==
    /\ Len(v) > Len(versionStringPrefix)
    /\ SubSeq(v, 1, 2) = << "v", "-" >>
    /\ isHash(SubSeq(v, 3, Len(v)))

rootKeys ==
    { getKey([type |-> IF run.command = "deploy" THEN "deploy" ELSE "plugin",
              action |-> a]) : a \in run.names }

\* The task objects.
TaskObjects == { instances[i] : i \in 1..Len(instances) }

\* C21: resolveDependencies is called at most once for a task object without
\* skipDependencies, exactly once when getDependencies was called, and every
\* getDependencies call has returned the task objects that one call created,
\* none when it created none.
C21_Memoized ==
    \A task \in TaskObjects :
        ~task.skipDependencies =>
            /\ task.resolveCalls <= 1
            /\ Cardinality(task.returned) <= 1
            /\ task.called =>
                  /\ task.resolveCalls = 1
                  /\ task.resolved.isSet /\ task.returned = { task.resolved.v }
                  /\ \A i \in 1..Len(task.resolved.v) :
                        \E dep \in TaskObjects : dep.uid = task.resolved.v[i]

\* getDependencies was called again on a task object with no dependency and
\* on one with two, and resolveDependencies was called once for each.
C21_Witness ==
    \E none, two \in TaskObjects :
        /\ ~none.skipDependencies /\ none.repeated
        /\ none.resolveCalls = 1 /\ none.returned = { << >> }
        /\ ~two.skipDependencies /\ two.repeated
        /\ two.resolveCalls = 1 /\ Len(two.resolved.v) = 2

\* C24: the key of a task object is its type, a dot and its name, its id is
\* the key, a dot and its uid; two task objects have different ids, and the
\* same key exactly when they have the same type and name; the results map
\* has the keys of task objects for its keys, and no id.
C24_KeyAndId ==
    /\ \A task \in TaskObjects :
          /\ getKey(task) = << task.type, ".", task.action >>
          /\ getId(task) = << task.type, ".", task.action, ".", task.uid >>
    /\ \A i, j \in 1..Len(instances) :
          /\ i # j => getId(instances[i]) # getId(instances[j])
          /\ getKey(instances[i]) = getKey(instances[j])
                <=> /\ instances[i].type = instances[j].type
                    /\ instances[i].action = instances[j].action
    /\ \A k \in DOMAIN taskResults :
          /\ \E task \in TaskObjects : k = << task.type, ".", task.action >>
          /\ \A task \in TaskObjects : k # getId(task)
          /\ k = << taskResults[k].type, "." >> \o taskResults[k].name

\* Two BuildTasks of x were created, with one key and two ids, and the
\* results map has one entry for them.
C24_Witness ==
    \E i, j \in 1..Len(instances) :
        /\ i # j
        /\ instances[i].type = "build" /\ instances[j].type = "build"
        /\ getKey(instances[i]) = getKey(instances[j])
        /\ getId(instances[i]) # getId(instances[j])
        /\ getKey(instances[i]) \in DOMAIN taskResults

\* The type of the task that resolves an action of the kind.
typeOfKind(kind) ==
    CASE kind = "Build" -> "build"
      [] kind = "Deploy" -> "deploy"
      [] kind = "Run" -> "run"
      [] kind = "Test" -> "test"
      [] OTHER -> None

\* The resolved dependencies of every task object follow the references of
\* its action, and getResolveTaskForAction has thrown exactly for an action
\* of a kind that is none of the four.
resolvedByKind ==
    /\ \A task \in TaskObjects :
          task.resolved.isSet =>
              LET refs == getDependencyReferences(
                              [kind |-> task.kind, name |-> task.action])
              IN  /\ Len(task.resolved.v) = Len(refs)
                  /\ \A i \in 1..Len(refs) :
                        \E dep \in TaskObjects :
                            /\ dep.uid = task.resolved.v[i]
                            /\ dep.action = refs[i].name
                            /\ dep.kind = refs[i].kind
                            /\ dep.type = typeOfKind(refs[i].kind)
    /\ resolveOut.called =>
          /\ resolveOut.threw <=> typeOfKind(resolveOut.action.kind) = None
          /\ resolveOut.threw => ~resolveOut.task.isSet
          /\ ~resolveOut.threw =>
                /\ resolveOut.task.isSet
                /\ resolveOut.task.v.type = typeOfKind(resolveOut.action.kind)
                /\ resolveOut.task.v.action = resolveOut.action.name
    /\ \A task \in TaskObjects : typeOfKind(task.kind) = task.type

\* C25: the resolved dependencies of a task object are as many as the
\* references of its action, the i-th a task object for the action of the
\* i-th reference and of the type of its kind; getResolveTaskForAction has
\* thrown exactly for an action of a kind that is none of the four, and then
\* no task object was created.
C25_ResolveTasks ==
    /\ []resolvedByKind
    /\ [][resolveOut'.threw /\ ~resolveOut.called => instances' = instances]_vars

\* getResolveTaskForAction has thrown for the action of another kind, and
\* the TestTask of x has a DeployTask and a BuildTask for its dependencies,
\* the DeployTask a RunTask and a BuildTask.
C25_Witness ==
    /\ resolveOut.threw /\ resolveOut.action.kind = "Other"
    /\ \E testTask, deployTask, runTask \in TaskObjects :
          /\ testTask.type = "test" /\ deployTask.type = "deploy"
          /\ runTask.type = "run"
          /\ Len(testTask.resolved.v) = 2
          /\ testTask.resolved.v[1] = deployTask.uid
          /\ Len(deployTask.resolved.v) = 2
          /\ deployTask.resolved.v[1] = runTask.uid

\* C22: in a deploy run with skip-dependencies every requested task keeps
\* its dependencies unresolved and getDependencies gives it none, no other
\* task has a getStatus call, a process call or a result, and when the run
\* has ended without a stop on an error every requested task has a result of
\* its own.
C22_SkipDependencies ==
    run.started /\ run.skipDependencies =>
        /\ \A k \in rootKeys :
              /\ ~resolvedDependencies[k].isSet
              /\ getDependencies(taskFor(k, TRUE), resolvedDependencies[k]) = << >>
              /\ phase[k] # "absent"
        /\ \A k \in TaskKeys \ rootKeys :
              /\ ~hasResult(k) /\ phase[k] = "absent"
              /\ statusCalls[k] = 0 /\ processCalls[k] = 0
        /\ quiescent /\ ~firstError =>
              \A k \in rootKeys : hasResult(k) /\ ~results[k].aborted

\* The deploy of B alone, with skip-dependencies, has ended: B was processed
\* and the Deploys it depends on, A and E, have no result.
C22_Witness ==
    LET dB == getKey([type |-> "deploy", action |-> "B"])
    IN  /\ quiescent /\ run.skipDependencies /\ run.names = { "B" }
        /\ hasResult(dB) /\ results[dB].result = "ok" /\ processCalls[dB] = 1
        /\ dependenciesOf["B"] = { "A", "E" }
        /\ DOMAIN results = { dB }

\* C23: in a run of a pulumi command with skip-dependencies no command task
\* of a pulumi Deploy that was not named is in the graph, and none is
\* processed.
C23_SkipRuntimeDependencies ==
    run.started /\ run.command = "pulumi" /\ run.skipDependencies =>
        \A k \in TaskKeys :
            taskOf(k).type = "plugin" /\ taskOf(k).action \notin run.names =>
                phase[k] = "absent" /\ processCalls[k] = 0

\* The tasks reached from the requested ones by the config graph, or the
\* requested ones alone in a run with skip-dependencies.
expectedClosure ==
    IF run.skipDependencies THEN rootKeys
    ELSE rootKeys \cup UNION { allDeps(k) : k \in rootKeys }

\* A result of a task that went well carries the version of its action.
versioned ==
    \A k \in DOMAIN results :
        results[k].error = Null /\ ~results[k].aborted =>
            results[k].version = versionStringPrefix \o Digest(<< taskOf(k).action >>)

\* C26 as it is stated: when the deploy run has ended, the tasks with a result
\* are those of the dependency closure of the requested tasks.
C26_Original ==
    /\ DOMAIN results \subseteq expectedClosure
    /\ quiescent => DOMAIN results = expectedClosure
    /\ versioned

\* C26: no task outside the dependency closure of the requested tasks ever
\* has a result; when the run has ended without a stop on an error every task
\* of the closure has one; a result of a task that went well carries the
\* version of its action.
C26_Closure ==
    /\ DOMAIN results \subseteq expectedClosure
    /\ quiescent /\ ~firstError => DOMAIN results = expectedClosure
    /\ versioned

\* The deploy of B with its dependencies has ended: A, B and E each have a
\* result that went well, with the version of the action, and D has none.
C26_Witness ==
    LET dep(a) == getKey([type |-> "deploy", action |-> a])
    IN  /\ quiescent /\ ~run.skipDependencies /\ run.names = { "B" }
        /\ DOMAIN results = { dep("A"), dep("B"), dep("E") }
        /\ \A k \in DOMAIN results :
              /\ results[k].error = Null /\ ~results[k].aborted
              /\ results[k].version = versionString(taskOf(k).action)

\* The paths of the call that are in the same repository as the path.
sameRepo(path) ==
    { q \in Range(minIn.paths) :
        getRepoRoot(minIn.layout, q) = getRepoRoot(minIn.layout, path) }

\* C27: the root getMinimalRoots returns for a path is the root of the
\* repository of the path or a directory below it.
C27_RepoRootFloor ==
    minOut.isSet =>
        \A path \in Range(minIn.paths) :
            /\ contains(getRepoRoot(minIn.layout, path), path)
            /\ contains(getRepoRoot(minIn.layout, path), minOut.v[path])

\* The repository is the file system root, /r/a and /b share no directory
\* below it, and the root returned for both is the file system root.
C27_Witness ==
    /\ minOut.isSet
    /\ minIn.layout = { << sep >> }
    /\ minIn.paths = << << "/", "r", "/", "a" >>, << "/", "b" >> >>
    /\ \A path \in Range(minIn.paths) : minOut.v[path] = << sep >>

\* C28: getMinimalRoots returns one root for every path given, and the root
\* of a path is the path or a directory above it, and so for every path of
\* the call that is in the same repository.
C28_CommonAncestor ==
    minOut.isSet =>
        /\ DOMAIN minOut.v = Range(minIn.paths)
        /\ \A path \in Range(minIn.paths) :
              \A q \in sameRepo(path) : contains(minOut.v[path], q)

\* "0000000000" and no files.
sentinelVersion ==
    [contentHash |-> << "0", "0", "0", "0", "0", "0", "0", "0", "0", "0" >>,
     files |-> << >>]

\* C29: a call whose config has an include filter that is present and empty
\* has not invoked getFiles, has returned the sentinel contentHash with no
\* files, and the cache holds that TreeVersion under the cache key of the
\* call.
C29_IncludeNothing ==
    \A c \in Callers :
        pc[c] # "idle" /\ cfg[c].include = Some(<< >>) =>
            /\ ~scanned[c] /\ pc[c] = "done"
            /\ result[c] = sentinelVersion
            /\ CacheHas(cache, callKey(c))
            /\ CacheGet(cache, callKey(c)) = sentinelVersion

\* A forced call for the config that includes nothing has gone through the
\* scan lock and has returned the sentinel without a scan.
C29_Witness ==
    \E c \in Callers :
        /\ cfg[c].include = Some(<< >>) /\ pc[c] = "done"
        /\ force[c] /\ acquired[c] /\ ~scanned[c]
        /\ result[c].contentHash = NEW_RESOURCE_VERSION
        /\ CacheHas(cache, callKey(c))

\* Call c has returned, and in this step call d is made for the cache key
\* of c, not forced.
laterCall(c, d) ==
    /\ pc[c] = "done" /\ pc[d] = "idle" /\ pc'[d] # "idle"
    /\ ~force'[d]
    /\ getResourceTreeCacheKey(cfg'[d]) = callKey(c)

\* Call d returns in this step what call c returned, without the scan lock
\* and without getFiles.
returnsCached(c, d) ==
    /\ pc'[d] = "done" /\ result'[d] = result[c]
    /\ ~acquired'[d] /\ ~waited'[d] /\ ~scanned'[d]
    /\ queues' = queues /\ cache' = cache

\* C30 as it is stated: a call that is not forced and is made after a call
\* for its cache key has returned, with no invalidation of the key since,
\* returns what that call returned, without the scan lock and getFiles.
C30_Original ==
    [][\A c, d \in RefreshCallers :
          laterCall(c, d) /\ since[c] \in { "nothing", "stored" } =>
              returnsCached(c, d)]_vars

\* C30: a call that is not forced and is made after a call for its cache key
\* has returned, with no invalidation of the key and no forced call for the
\* key returning since, returns what that call returned, without the scan
\* lock and getFiles; with a forced call in between it returns from the cache
\* as well, without the lock and getFiles.
C30_FastPath ==
    [][\A c, d \in RefreshCallers :
          /\ laterCall(c, d) /\ since[c] = "nothing" => returnsCached(c, d)
          /\ laterCall(c, d) /\ since[c] = "stored" =>
                /\ pc'[d] = "done" /\ ~acquired'[d] /\ ~scanned'[d]
                /\ result'[d] = CacheGet(cache, callKey(c))]_vars

\* A call has scanned and returned, and a later call for its key that is not
\* forced has returned the same TreeVersion without the lock and a scan.
C30_Witness ==
    \E c, d \in RefreshCallers :
        /\ c < d /\ pc[c] = "done" /\ pc[d] = "done"
        /\ scanned[c] /\ since[c] = "nothing"
        /\ ~force[d] /\ callKey(d) = callKey(c)
        /\ ~acquired[d] /\ ~scanned[d] /\ result[d] = result[c]

\* Call c returns in this step.
returns(c) == pc[c] \notin { "done", "failed" } /\ pc'[c] = "done"

\* C31: a forced call that returns has gone through the scan lock, has
\* invoked getFiles unless its include filter is empty, returns the
\* TreeVersion of the files its own scan read, and leaves that TreeVersion in
\* the cache under its key.
C31_ForceBypassesCache ==
    [][\A c \in DOMAIN pc :
          returns(c) /\ force'[c] =>
              /\ acquired'[c]
              /\ scanned'[c] # includesNothing(cfg'[c])
              /\ IF includesNothing(cfg'[c])
                 THEN result'[c] = emptyTreeVersion
                 ELSE \E files \in Perms(snap[c]) :
                         result'[c] = treeVersionOf(cfg'[c], files)
              /\ CacheHas(cache', getResourceTreeCacheKey(cfg'[c]))
              /\ CacheGet(cache', getResourceTreeCacheKey(cfg'[c])) = result'[c]]_vars

\* A forced call made while the cache held an entry for its key has scanned
\* and has put a different TreeVersion in its place.
C31_Witness ==
    \E c, d \in DOMAIN pc :
        /\ pc[c] = "done" /\ pc[d] = "done" /\ since[c] = "stored"
        /\ callKey(d) = callKey(c)
        /\ force[d] /\ acquired[d] /\ scanned[d]
        /\ result[d] # result[c]
        /\ CacheGet(cache, callKey(d)) = result[d]

\* The paths are in ascending order.
sortedPaths(paths) ==
    \A i, j \in 1..Len(paths) : i < j => ~StrLess(paths[j], paths[i])

\* contentHash is the hash of some state of the scanned files other than the
\* config file.
hashWithoutConfigFile(contentHash, config) ==
    \E state \in FileStates :
        LET configPath == getConfigFilePath(config)
            others == { f \in getFilesSet(state, getSourcePath(config),
                                          config.include, scanExclude(config)) :
                          ~(configPath.isSet /\ f.path = configPath.v) }
        IN  \E files \in Perms(others) :
                treeVersionOf(config, files).contentHash = contentHash

\* C32: the files of every TreeVersion a call has returned are sorted by
\* path and do not contain the config file of the call's config, and the
\* contentHash is made of the other files only.
C32_FilesOfTreeVersion ==
    \A c \in DOMAIN pc :
        pc[c] = "done" =>
            /\ sortedPaths(result[c].files)
            /\ getConfigFilePath(cfg[c]).isSet =>
                  getConfigFilePath(cfg[c]).v \notin Range(result[c].files)
            /\ hashWithoutConfigFile(result[c].contentHash, cfg[c])

\* C33: the warning is emitted exactly when the files that are left after
\* the config file is taken out are more than 10,000, and the TreeVersion is
\* stored and returned all the same.
C33_FileCountWarning ==
    countOut.done =>
        /\ countOut.warned <=> countOut.files > fileCountWarningThreshold
        /\ countOut.stored

\* The second report is the first with one file under another name of the
\* same directory.
renamed(first, second) ==
    \E f \in Range(first), to \in RenamePaths :
        /\ to \notin { g.path : g \in Range(first) }
        /\ dirname(to) = dirname(f.path)
        /\ Range(second) = rename(Range(first), f.path, to)

\* The content hashes of the reported files, in the order of their paths.
hashesByPath(report) ==
    LET sorted == CHOOSE p \in Perms(Range(report)) :
                      sortedPaths([i \in 1..Len(p) |-> p[i].path])
    IN  [i \in 1..Len(sorted) |-> sorted[i].hash]

\* C34: with a config file path, the scans before and after a rename within
\* the directory give different contentHashes; without one, the contentHash
\* is the hash of the content hashes in the order of the paths.
C34_RenameChangesHash ==
    sortOut # << >> =>
        /\ getConfigFilePath(sortIn.config).isSet
           /\ renamed(sortIn.first, sortIn.second) =>
               sortOut[1].contentHash # sortOut[2].contentHash
        /\ ~getConfigFilePath(sortIn.config).isSet =>
               /\ sortOut[1].contentHash = hashStrings(hashesByPath(sortIn.first))
               /\ sortOut[2].contentHash = hashStrings(hashesByPath(sortIn.second))

\* Two files of equal content, neither the config file, one of them renamed
\* so that the order of the two stays: the contentHash has changed.
C34_Witness ==
    /\ sortOut # << >>
    /\ getConfigFilePath(sortIn.config) = Some(FileC)
    /\ { f.path : f \in Range(sortIn.first) } = { DirA \o << sep, "b" >>, FileF }
    /\ { f.path : f \in Range(sortIn.second) } = { DirA \o << sep, "b" >>,
                                                  DirA \o << sep, "g" >> }
    /\ \A f \in Range(sortIn.first) : f.hash = << "h0" >>
    /\ sortOut[1].contentHash # sortOut[2].contentHash

\* Every call that waits for a scan lock is queued on it, and the call that
\* holds the lock is still scanning.
waitersHaveHolder ==
    \A c \in DOMAIN pc :
        pc[c] = "waiting" =>
            /\ ScanLockKey(callKey(c)) \in DOMAIN queues
            /\ c \in Range(queues[ScanLockKey(callKey(c))])
            /\ \E d \in DOMAIN pc :
                  /\ pc[d] \in { "scanning", "read" }
                  /\ ScanLockKey(callKey(d)) = ScanLockKey(callKey(c))

\* The scan of call c fails in this step.
fails(c) == pc[c] \in { "scanning", "read" } /\ pc'[c] = "failed"

\* C35: a call whose getFiles fails ends as failed and leaves the cache entry
\* of its key as it was, and its lock is free or has gone to a call that
\* waited for it; a call made for the key of a failed call, with nothing
\* cached and no scan in flight, takes the lock and scans; no call waits for
\* a lock that no scan holds.
C35_FailedScan ==
    /\ []waitersHaveHolder
    /\ [][\A c \in DOMAIN pc :
             /\ fails(c) =>
                   /\ CacheHas(cache', callKey(c)) = CacheHas(cache, callKey(c))
                   /\ CacheHas(cache, callKey(c)) =>
                         CacheGet(cache', callKey(c)) = CacheGet(cache, callKey(c))
                   /\ \/ ScanLockKey(callKey(c)) \notin DOMAIN queues'
                      \/ \E d \in DOMAIN pc :
                            /\ pc[d] = "waiting" /\ pc'[d] = "scanning"
                            /\ ScanLockKey(callKey(d)) = ScanLockKey(callKey(c))
             /\ \A d \in DOMAIN pc :
                   /\ pc[c] = "failed" /\ pc[d] = "idle" /\ pc'[d] # "idle"
                   /\ getResourceTreeCacheKey(cfg'[d]) = callKey(c)
                   /\ ~CacheHas(cache, callKey(c))
                   /\ ScanLockKey(callKey(c)) \notin DOMAIN queues
                   => acquired'[d] /\ pc'[d] = "scanning" /\ scanned'[d]]_vars

\* The scan of a call has failed, and a call that waited for its lock has
\* scanned after it and has returned.
C35_Witness ==
    \E c, d \in DOMAIN pc :
        /\ pc[c] = "failed" /\ pc[d] = "done"
        /\ callKey(d) = callKey(c)
        /\ waited[d] /\ scanned[d] /\ ~force[d]
        /\ CacheGet(cache, callKey(d)) = result[d]

\* The entries of a filter in ascending order.
entriesInOrder(list) ==
    CHOOSE p \in Perms(Range(list)) : sortedPaths(p)

\* Both filters are unset, or both list the same entries.
sameEntries(f, g) ==
    f.isSet = g.isSet /\ Range(f.v) = Range(g.v) /\ Len(f.v) = Len(g.v)

\* The cache key is "source" and the source path, then "include" and the
\* hash of the include entries when include is set, then "exclude" and the
\* hash of the exclude entries when exclude is set.
keyShape(config, key) ==
    LET n == 2 + (IF config.include.isSet THEN 2 ELSE 0)
               + (IF config.exclude.isSet THEN 2 ELSE 0)
        e == IF config.include.isSet THEN 5 ELSE 3
    IN  /\ Len(key) = n
        /\ key[1] = << "source" >> /\ key[2] = getSourcePath(config)
        /\ config.include.isSet =>
              /\ key[3] = << "include" >>
              /\ key[4] = hashStrings(entriesInOrder(config.include.v))
        /\ config.exclude.isSet =>
              /\ key[e] = << "exclude" >>
              /\ key[e + 1] = hashStrings(entriesInOrder(config.exclude.v))

\* C36: the cache key of every config a call was made with has the stated
\* shape; calls whose configs have one source path and list the same include
\* and exclude entries, in any order, have one cache key and one lock key, at
\* most one of them scans, and they return one TreeVersion.
C36_CacheKey ==
    \A c, d \in DOMAIN pc :
        pc[c] # "idle" /\ pc[d] # "idle" =>
            /\ keyShape(given[c], getResourceTreeCacheKey(given[c]))
            /\ /\ getSourcePath(given[c]) = getSourcePath(given[d])
               /\ sameEntries(given[c].include, given[d].include)
               /\ sameEntries(given[c].exclude, given[d].exclude)
               => /\ getResourceTreeCacheKey(given[c]) = getResourceTreeCacheKey(given[d])
                  /\ ScanLockKey(getResourceTreeCacheKey(given[c]))
                        = ScanLockKey(getResourceTreeCacheKey(given[d]))
                  /\ c # d => ~(scanned[c] /\ scanned[d])
                  /\ pc[c] = "done" /\ pc[d] = "done" =>
                        /\ result[c] = result[d]
                        /\ CacheGet(cache, getResourceTreeCacheKey(given[c]))
                              = result[c]

\* Two calls whose configs list the include and exclude entries in opposite
\* orders have returned, one of them from the scan of the other.
C36_Witness ==
    \E c, d \in DOMAIN pc :
        /\ pc[c] = "done" /\ pc[d] = "done"
        /\ given[c].include = Some(<< << "g" >>, << "f" >> >>)
        /\ given[d].include = Some(<< << "f" >>, << "g" >> >>)
        /\ given[c].exclude = Some(<< << "c" >>, << "g" >> >>)
        /\ given[d].exclude = Some(<< << "g" >>, << "c" >> >>)
        /\ scanned[c] /\ ~scanned[d] /\ result[c] = result[d]
        /\ result[c].files # << >>

\* C37: after a getTreeVersion call the config holds the include and exclude
\* entries it held before, in the same order.
C37_ConfigUnchanged ==
    \A c \in DOMAIN pc : pc[c] # "idle" => cfg[c] = given[c]

\* The task object with the uid.
taskOfUid(uid) == CHOOSE task \in TaskObjects : task.uid = uid

\* The list has a reference with the kind and name of the task's action.
listed(list, task) ==
    \E i \in 1..Len(list) : list[i].kind = task.kind /\ list[i].name = task.action

RECURSIVE originOf(_)
\* The task a command created that the task is a dependency of, at any
\* depth.
originOf(task) ==
    IF task.parent = None THEN task ELSE originOf(taskOfUid(task.parent))

\* C38: a dependency task is forced exactly when the forceActions list of
\* the task it was created by has a reference of its action's kind and name,
\* and it has that same list; a task made with forceBuild has every Build
\* action of the graph in its list, and every Build dependency task below it,
\* at any depth, is forced.
C38_ForcePropagation ==
    /\ \A dep \in TaskObjects :
          dep.parent # None =>
              /\ dep.force <=> listed(taskOfUid(dep.parent).forceActions, dep)
              /\ dep.forceActions = taskOfUid(dep.parent).forceActions
              /\ originOf(dep).forceBuild /\ dep.kind = "Build" => dep.force
    /\ \A task \in TaskObjects :
          task.forceBuild =>
              \A action \in Actions :
                  action.kind = "Build" =>
                      \E i \in 1..Len(task.forceActions) :
                          task.forceActions[i] = action

\* Under a TestTask made with forceBuild and no forceActions, the BuildTask
\* that is a dependency of its DeployTask is forced and the DeployTask is not.
C38_Witness ==
    \E build, deploy, test \in TaskObjects :
        /\ test.parent = None /\ test.type = "test" /\ test.forceBuild
        /\ Len(test.forceActions) = Len(getBuilds)
        /\ deploy.parent = test.uid /\ deploy.type = "deploy" /\ ~deploy.force
        /\ build.parent = deploy.uid /\ build.type = "build" /\ build.force

\* The paths in the order of the permutation.
permuted(paths, perm) == [i \in 1..Len(paths) |-> paths[perm[i]]]

\* C39: getMinimalRoots returns the same map whatever order the getRepoRoot
\* lookups end in and whatever order the paths are given in, and two paths
\* of one repository have the same root in it.
C39_OrderIndependent ==
    minOut.isSet =>
        /\ \A order, perm \in Perms(1..Len(minIn.paths)) :
              getMinimalRoots(permuted(minIn.paths, perm), minIn.layout, order)
                  = minOut.v
        /\ \A p, q \in Range(minIn.paths) :
              getRepoRoot(minIn.layout, p) = getRepoRoot(minIn.layout, q) =>
                  minOut.v[p] = minOut.v[q]

\* C40: every getMinimalRoots call comes to its end, and every turn of the
\* while loop makes p shorter.
C40_Terminates ==
    /\ <>(walk.pc = "done" /\ minOut.isSet)
    /\ [][walk.pc = "while" => Len(walk'.p) < Len(walk.p)]_vars

\* For /b and /r/a/c in the repository at the file system root, which have
\* no directory in common below it, the while loop was left at the root
\* after three turns, and the call has returned the root for both.
C40_Witness ==
    /\ walk.pc = "done" /\ minOut.isSet /\ walk.turns = 3
    /\ minIn.paths = << << "/", "b" >>, << "/", "r", "/", "a", "/", "c" >> >>
    /\ \A path \in Range(minIn.paths) :
          minIn.roots[path] = << sep >> /\ minOut.v[path] = << sep >>

====
